---------------------------- MODULE Spec2Model ----------------------------
(***************************************************************************)
(* A model of the FEII research pipeline:                                  *)
(*   src/3_make_latex.py   table assembly (cleanup pass, row parsing,       *)
(*                         composite builders)                             *)
(*   src/1_process_data.py panel preparation (merges, growth flag)          *)
(*   src/helper_functions.py                                                *)
(*                                                                         *)
(* Text is a sequence of tokens.  A token is one character that the code   *)
(* treats specially (backslash, ampersand, blank, newline, a digit, the    *)
(* decimal point, the minus sign) or an opaque word: a fixed piece of text *)
(* that neither starts nor ends with a blank and holds no separator, no    *)
(* row terminator and no decimal number, written as one string.  The words *)
(* are cut so that every text the code searches for is a whole number of   *)
(* tokens: "x in line" of the source is the contiguous-subsequence test    *)
(* Contains, str.replace is Replace, str.split is Split, and so on.        *)
(***************************************************************************)
EXTENDS Integers, Sequences, FiniteSets, TLC

VARIABLES
    pc,     \* position of the running script / call
    call,   \* the call under way: function name and arguments
    ret,    \* value returned by the call (when it returns one)
    exc,    \* the exception that ended the call, or NoExc
    fs,     \* the tables/ directory: path -> file
    prev,   \* history: fs as it was before the latest step
    frame   \* panel preparation: the data frames and outputs of 1_process_data.py

vars == <<pc, call, ret, exc, fs, prev, frame>>

\* ------------------------------------------------------------------ bounds
\* longest row handed to extract_values_from_row
MaxRowLen == 6

\* ------------------------------------------------------- string primitives
BS == "\\"
AMP == "&"
SP == " "
NL == "\n"

SeqsUpTo(S, n) == UNION {[1..k -> S] : k \in 0..n}

Range(s) == {s[i] : i \in 1..Len(s)}

\* old occurs in s starting at position i
OccursAt(s, old, i) ==
    /\ i >= 1
    /\ i + Len(old) - 1 <= Len(s)
    /\ SubSeq(s, i, i + Len(old) - 1) = old

\* Python: old in s
Contains(s, old) == \E i \in 1..Len(s) : OccursAt(s, old, i)

\* Python: s.endswith(suffix)
EndsWith(s, suffix) == OccursAt(s, suffix, Len(s) - Len(suffix) + 1)

\* the least member of a non-empty set of positions
Least(S) == CHOOSE i \in S : \A j \in S : i <= j

\* Python: s.replace(old, new), leftmost non-overlapping occurrences: the text
\* up to the leftmost occurrence is kept, and the search goes on behind it
RECURSIVE Replace(_, _, _)
ReplaceFrom(s, old, new, i) ==
    SubSeq(s, 1, i - 1) \o new \o Replace(SubSeq(s, i + Len(old), Len(s)), old, new)
ReplaceAt(s, old, new, hits) ==
    IF hits = {} THEN s ELSE ReplaceFrom(s, old, new, Least(hits))
Replace(s, old, new) ==
    ReplaceAt(s, old, new, {i \in 1..(Len(s) - Len(old) + 1) : OccursAt(s, old, i)})

\* Python: s.split(sep) for a one-character separator
RECURSIVE Split(_, _)
Split(s, sep) ==
    IF sep \notin Range(s) THEN <<s>>
    ELSE LET i == CHOOSE k \in 1..Len(s) :
                      s[k] = sep /\ \A j \in 1..(k - 1) : s[j] # sep
         IN  <<SubSeq(s, 1, i - 1)>> \o Split(SubSeq(s, i + 1, Len(s)), sep)

\* Python: sep.join(parts)
RECURSIVE Join(_, _)
Join(parts, sep) ==
    IF parts = <<>> THEN <<>>
    ELSE IF Len(parts) = 1 THEN parts[1]
    ELSE parts[1] \o sep \o Join(Tail(parts), sep)

IsSpace(c) == c \in {SP, NL}

\* Python: s.rstrip(), s.lstrip(), s.strip()
RECURSIVE RStrip(_)
RStrip(s) ==
    IF s # <<>> /\ IsSpace(s[Len(s)]) THEN RStrip(SubSeq(s, 1, Len(s) - 1)) ELSE s

RECURSIVE LStrip(_)
LStrip(s) == IF s # <<>> /\ IsSpace(s[1]) THEN LStrip(Tail(s)) ELSE s

Strip(s) == LStrip(RStrip(s))

\* Python: text.splitlines(): a final line terminator opens no further line
SplitLines(text) ==
    IF text = <<>> THEN <<>>
    ELSE LET parts == Split(text, NL)
         IN  IF parts[Len(parts)] = <<>>
             THEN SubSeq(parts, 1, Len(parts) - 1)
             ELSE parts

\* the sequence s without its empty members (order kept)
RECURSIVE NonEmpty(_)
NonEmpty(s) ==
    IF s = <<>> THEN <<>>
    ELSE IF Head(s) = <<>> THEN NonEmpty(Tail(s))
    ELSE <<Head(s)>> \o NonEmpty(Tail(s))

\* ------------------------------------------------------------ exceptions
NoPath == <<>>
NoExc == [type |-> "none", element |-> "none", path |-> NoPath]
Raise(type, element, path) == [type |-> type, element |-> element, path |-> path]

\* ---------------------------------------------- extract_values_from_row
\* the literal "__AMP__PLACEHOLDER__"; none of its characters is special, so
\* it is one opaque word wherever it stands in a line
placeholder == "__AMP__PLACEHOLDER__"

\* the loop body of lines 205-217: one part -> the cell it yields (<<>>: dropped)
CellOfPart(part) ==
    LET p1 == RStrip(part)
        p2 == IF EndsWith(p1, <<BS, BS>>)
              THEN RStrip(SubSeq(p1, 1, Len(p1) - 2))
              ELSE p1
        p3 == Replace(p2, <<placeholder>>, <<BS, AMP>>)
    IN  Strip(p3)

RECURSIVE CellsOfParts(_)
CellsOfParts(parts) ==
    IF parts = <<>> THEN <<>>
    ELSE LET p == CellOfPart(Head(parts))
         IN  (IF p # <<>> THEN <<p>> ELSE <<>>) \o CellsOfParts(Tail(parts))

extract_values_from_row(line, skip_first) ==
    LET tmp == Replace(line, <<BS, AMP>>, <<placeholder>>)
        parts0 == Split(tmp, AMP)
        parts == IF skip_first THEN Tail(parts0) ELSE parts0
    IN  CellsOfParts(parts)

\* ------------------------------------------ specification: row extraction
RowChars == {"a", SP, AMP, BS, placeholder}

NoFrame == [stage |-> "none"]
NoFs == <<>>

InitRow ==
    /\ pc = "row_call"
    /\ call \in {[fn |-> "extract_values_from_row", line |-> l, skip_first |-> b] :
                    l \in SeqsUpTo(RowChars, MaxRowLen), b \in BOOLEAN}
    /\ ret = <<>>
    /\ exc = NoExc
    /\ fs = NoFs
    /\ prev = NoFs
    /\ frame = NoFrame

ExtractRow ==
    /\ pc = "row_call"
    /\ ret' = extract_values_from_row(call.line, call.skip_first)
    /\ pc' = "row_done"
    /\ UNCHANGED <<call, exc, fs, prev, frame>>

NextRow == ExtractRow

SpecRow == InitRow /\ [][NextRow]_vars

\* ---- what the claims call the pieces of a row
\* positions of the separators that are not escaped (not preceded by a backslash)
UnescapedSeps(line) ==
    {i \in 1..Len(line) : line[i] = AMP /\ (i = 1 \/ line[i - 1] # BS)}

\* the pieces between consecutive unescaped separators, left to right
Pieces(line) ==
    LET seps == UnescapedSeps(line)
        n == Cardinality(seps)
        \* start of piece k (1..n+1) and its end
        SepNo(k) == CHOOSE i \in seps : Cardinality({j \in seps : j < i}) = k - 1
        From(k) == IF k = 1 THEN 1 ELSE SepNo(k - 1) + 1
        To(k) == IF k = n + 1 THEN Len(line) ELSE SepNo(k) - 1
    IN  [k \in 1..(n + 1) |-> SubSeq(line, From(k), To(k))]

\* a piece with blanks trimmed and a trailing row terminator removed
TrimPiece(p) ==
    LET q == RStrip(p)
    IN  Strip(IF EndsWith(q, <<BS, BS>>) THEN SubSeq(q, 1, Len(q) - 2) ELSE q)

PiecesKept(line, skip_first) ==
    IF skip_first THEN Tail(Pieces(line)) ELSE Pieces(line)

\* C5: the returned cells are exactly the non-empty trimmed pieces obtained by
\* splitting at unescaped ampersands only (each escaped separator unchanged in
\* its cell), and no placeholder text is left in a returned cell that the
\* piece did not hold
C5_CellsAreUnescapedPieces ==
    pc = "row_done" =>
        LET kept == PiecesKept(call.line, call.skip_first)
        IN  ret = NonEmpty([k \in 1..Len(kept) |-> TrimPiece(kept[k])])

\* (support for C5) on a line that holds no placeholder text the shielding is
\* exact: the cells are the trimmed non-empty pieces
ShieldingExactWithoutPlaceholderText ==
    (pc = "row_done" /\ placeholder \notin Range(call.line)) =>
        LET kept == PiecesKept(call.line, call.skip_first)
        IN  ret = NonEmpty([k \in 1..Len(kept) |-> TrimPiece(kept[k])])

\* C6: the row terminator is stripped from the last cell of the row only: a
\* piece that is not the last one keeps a double backslash it ends with
C6_TerminatorStrippedFromLastCellOnly ==
    (pc = "row_done" /\ placeholder \notin Range(call.line)) =>
        LET kept == PiecesKept(call.line, call.skip_first)
            n == Len(kept)
        IN  ret = NonEmpty([k \in 1..n |->
                      IF k = n THEN TrimPiece(kept[k]) ELSE Strip(kept[k])])

\* ------------------------------------------------------------ configuration
INTERACTION_LABEL == "$\\Delta FF_t \\times$ Bank HHI"

\* a header mapping is a sequence of <<old, new>> pairs, in dict order
replacements_panelA == <<
    << <<"d\\_total\\_deposits">>,
       <<"\\makecell[c]{$\\Delta$Total", BS, BS, "deposits}">> >>,
    << <<"d\\_deposit\\_spread">>,
       <<"\\makecell[c]{$\\Delta$Deposit", BS, BS, "spread}">> >>,
    << <<"d\\_savings\\_deposits">>,
       <<"\\makecell[c]{$\\Delta$Savings", BS, BS, "deposits}">> >>,
    << <<"d\\_time\\_deposits">>,
       <<"\\makecell[c]{$\\Delta$Time", BS, BS, "deposits}">> >>,
    << <<"d\\_wholesale\\_funding">>,
       <<"\\makecell[c]{$\\Delta$Wholesale", BS, BS, "funding}">> >>,
    << <<"d\\_total\\_liabilities">>,
       <<"\\makecell[c]{$\\Delta$Total", BS, BS, "liabilities}">> >> >>

replacements_panelB == <<
    << <<"d\\_total\\_assets">>,
       <<"\\makecell[c]{$\\Delta$Total", BS, BS, "assets}">> >>,
    << <<"d\\_cash">>,
       <<"\\makecell[c]{$\\Delta$Cash}">> >>,
    << <<"d\\_total\\_securities">>,
       <<"\\makecell[c]{$\\Delta$Securities}">> >>,
    << <<"d\\_total\\_loans">>,
       <<"\\makecell[c]{$\\Delta$Total", BS, BS, "loans}">> >>,
    << <<"d\\_re\\_loans">>,
       <<"\\makecell[c]{$\\Delta$RE", BS, BS, "loans}">> >>,
    << <<"d\\_ci\\_loans">>,
       <<"\\makecell[c]{$\\Delta$C", BS, AMP, "I", BS, BS, "loans}">> >> >>

FE_REPLACEMENTS == <<
    << <<"rssdid fixed effects">>,          <<"Bank f.e.">> >>,
    << <<"rssdid-post2008 fixed effects">>, <<"Bank $\\times$ post-2008 f.e.">> >>,
    << <<"dateq fixed effects">>,           <<"Quarter f.e.">> >> >>

\* the two spellings of the level term's name
L1_ESCAPED == "l1\\_herfdepcty"
L1_PLAIN == "l1_herfdepcty"

\* r"l1\_herfdepcty $\times$ dFF"
INTERACTION_RAW == <<L1_ESCAPED, SP, "$\\times$", SP, "dFF">>

\* r"\begin{tabular}{lcccccc}" and what replaces it
TABULAR_BEGIN == <<"\\begin{tabular", "}", "{", "lcccccc", "}">>
TABULAR_STAR_BEGIN ==
    <<"\\begin{tabular", "*", "}", "{\\textwidth}{@{\\extracolsep{\\fill}}",
      "lcccccc", "@{}", "}">>
\* r"\end{tabular}" and what replaces it
TABULAR_END == <<"\\end{tabular", "}">>
\* (mutant) the star put after the closing brace: r"\end{tabular}*"
TABULAR_STAR_END_misplaced == <<"\\end{tabular", "}", "*">>
TABULAR_STAR_END == <<"\\end{tabular", "*", "}">>

\* ------------------------------------------------------------- process_tex
DigitSeq == <<"0", "1", "2", "3", "4", "5", "6", "7", "8", "9">>
Digits == Range(DigitSeq)
DigitVal(d) == (CHOOSE i \in 1..10 : DigitSeq[i] = d) - 1

RECURSIVE NumVal(_)
NumVal(ds) ==
    IF ds = <<>> THEN 0
    ELSE NumVal(SubSeq(ds, 1, Len(ds) - 1)) * 10 + DigitVal(ds[Len(ds)])

RECURSIVE Pow10(_)
Pow10(n) == IF n = 0 THEN 1 ELSE 10 * Pow10(n - 1)

RECURSIVE NatToDigits(_)
NatToDigits(n) ==
    IF n < 10 THEN <<DigitSeq[n + 1]>>
    ELSE NatToDigits(n \div 10) \o <<DigitSeq[(n % 10) + 1]>>

\* number of digits of s from position i on
RECURSIVE DigitRun(_, _)
DigitRun(s, i) ==
    IF i <= Len(s) /\ s[i] \in Digits THEN 1 + DigitRun(s, i + 1) ELSE 0

\* length of the match of -?\d+\.\d+ (both runs greedy, so that the lookahead
\* for a non-digit or the end holds) at position i of s; 0: no match there
MatchLen(s, i) ==
    LET off == IF i <= Len(s) /\ s[i] = "-" THEN 1 ELSE 0
        a == DigitRun(s, i + off)
        dot == i + off + a
        b == DigitRun(s, dot + 1)
    IN  IF a > 0 /\ dot <= Len(s) /\ s[dot] = "." /\ b > 0
        THEN off + a + 1 + b
        ELSE 0

\* f"{float(num_str):.3f}" on a matched number: the value rounded to three
\* decimals (an exact decimal tie to even), the sign kept, leading zeros gone
pad_to_3_dec(num_str) ==
    LET neg == num_str[1] = "-"
        body == IF neg THEN Tail(num_str) ELSE num_str
        a == DigitRun(body, 1)
        ip == SubSeq(body, 1, a)
        fr == SubSeq(body, a + 2, Len(body))
        d == Len(fr)
        scaled == NumVal(ip) * Pow10(d) + NumVal(fr)
        q == IF d <= 3 THEN scaled * Pow10(3 - d) ELSE scaled \div Pow10(d - 3)
        r == IF d <= 3 THEN 0 ELSE scaled % Pow10(d - 3)
        half == IF d <= 3 THEN 1 ELSE 5 * Pow10(d - 4)
        t == IF r > half \/ (r = half /\ q % 2 = 1) THEN q + 1 ELSE q
        f == t % 1000
    IN  (IF neg THEN <<"-">> ELSE <<>>)
        \o NatToDigits(t \div 1000)
        \o <<".", DigitSeq[(f \div 100) + 1], DigitSeq[((f \div 10) % 10) + 1],
             DigitSeq[(f % 10) + 1]>>

\* pattern.sub(pad_to_3_dec, text): the leftmost match is reformatted, and
\* the scan goes on behind it
RECURSIVE SubNumbers(_)
SubFrom(s, i, m) ==
    SubSeq(s, 1, i - 1) \o pad_to_3_dec(SubSeq(s, i, i + m - 1))
        \o SubNumbers(SubSeq(s, i + m, Len(s)))
SubAt(s, starts) ==
    IF starts = {} THEN s ELSE SubFrom(s, Least(starts), MatchLen(s, Least(starts)))
SubNumbers(s) ==
    SubAt(s, {i \in 1..Len(s) : s[i] \in Digits \cup {"-"} /\ MatchLen(s, i) > 0})

\* for old, new in mapping.items(): text = text.replace(old, new)
RECURSIVE ReplaceAll(_, _)
ReplaceAll(text, mapping) ==
    IF mapping = <<>> THEN text
    ELSE ReplaceAll(Replace(text, Head(mapping)[1], Head(mapping)[2]), Tail(mapping))

\* line 105-106: the level-term row
IsLevelTermRow(line) ==
    /\ Contains(line, <<L1_ESCAPED>>) \/ Contains(line, <<L1_PLAIN>>)
    /\ ~Contains(line, <<"dFF">>)

\* line 111: the Within R2 row
IsWithinRow(line) ==
    Contains(line, <<"Within Adjusted R">>) \/ Contains(line, <<"Within R$^2$">>)

\* line 115: a fixed-effect indicator row
IsFixedEffectRow(line) ==
    \E i \in 1..Len(FE_REPLACEMENTS) : Contains(line, FE_REPLACEMENTS[i][1])

\* the loop of lines 98-118
RECURSIVE KeptLines(_, _)
KeptLines(lines, skip_next) ==
    IF lines = <<>> THEN <<>>
    ELSE IF skip_next THEN KeptLines(Tail(lines), FALSE)
    ELSE IF IsLevelTermRow(Head(lines)) THEN KeptLines(Tail(lines), TRUE)
    ELSE IF IsWithinRow(Head(lines)) \/ IsFixedEffectRow(Head(lines))
         THEN KeptLines(Tail(lines), FALSE)
    ELSE <<Head(lines)>> \o KeptLines(Tail(lines), FALSE)

\* lines 122-156: the substitutions and the number format, on the joined text
RewriteText(text, header_mapping) ==
    LET t1 == ReplaceAll(text, header_mapping)
        t2 == ReplaceAll(t1, FE_REPLACEMENTS)
        t3 == Replace(t2, INTERACTION_RAW, <<INTERACTION_LABEL>>)
        t4 == Replace(t3, TABULAR_BEGIN, TABULAR_STAR_BEGIN)
        t5 == Replace(t4, TABULAR_END, TABULAR_STAR_END)
    IN  SubNumbers(t5)

\* process_tex: the text written back to path, from the text read
process_tex(text, header_mapping) ==
    LET lines == SplitLines(text)
        new_lines == KeptLines(lines, FALSE)
    IN  RewriteText(Join(new_lines, <<NL>>), header_mapping)

\* ---------------------------------------------------------- fix_all_tables
\* A path of tables/ is the sequence of the parts of its file name that "_"
\* separates: t8_A_full_none.tex is <<"t8", "A", "full", "none">>.
File(text) == [exists |-> TRUE, text |-> text]
Missing == [exists |-> FALSE, text |-> <<>>]

\* the parts of a file name that hold a capital A, a capital B
PartsWithA == {"A"}
PartsWithB == {"B", "noBankFE", "onlyBankFE"}

NameHas(path, parts) == \E i \in 1..Len(path) : path[i] \in parts

\* lines 165-173: the mapping chosen by the file's name; <<>>: file skipped
MappingFor(path) ==
    IF NameHas(path, PartsWithA) THEN "panelA"
    ELSE IF NameHas(path, PartsWithB) THEN "panelB"
    ELSE "skip"

MappingNamed(tag) == IF tag = "panelA" THEN replacements_panelA ELSE replacements_panelB

\* fix_all_tables: every .tex file of tables/ that is a panel table, cleaned
fix_all_tables(files) ==
    [p \in DOMAIN files |->
        IF files[p].exists /\ MappingFor(p) # "skip"
        THEN File(process_tex(files[p].text, MappingNamed(MappingFor(p))))
        ELSE files[p]]

\* ------------------------------------------- specification: cleanup pass
\* number of chunks of a fragment text handed to the cleanup pass
MaxTextChunks == 3

CleanChunks == {
    <<NL>>,
    <<"x">>,
    <<L1_ESCAPED>>,
    <<SP, "$\\times$", SP, "dFF">>,
    <<"Within Adjusted R">>,
    <<"rssdid fixed effects">>,
    <<"d\\_total\\_deposits">>,
    <<"d\\_ci\\_loans">>,
    TABULAR_BEGIN,
    TABULAR_END,
    <<"1", ".", "5">>,
    <<"-", "0", ".", "9", "9", "9", "6">> }

RECURSIVE Flatten(_)
Flatten(chunks) ==
    IF chunks = <<>> THEN <<>> ELSE Head(chunks) \o Flatten(Tail(chunks))

CleanTexts == {Flatten(cs) : cs \in SeqsUpTo(CleanChunks, MaxTextChunks)}

CleanPaths == {<<"t8", "A", "full", "none">>, <<"t8", "B", "full", "none">>, <<"notes">>}

InitClean ==
    /\ pc = "clean_call"
    /\ call = [fn |-> "fix_all_tables"]
    /\ ret = <<>>
    /\ exc = NoExc
    /\ fs \in {[p \in {q} |-> File(t)] : q \in CleanPaths, t \in CleanTexts}
    /\ prev = NoFs
    /\ frame = NoFrame

\* one run of the cleanup pass; the script may be run again on its own output
FixAllTables ==
    /\ pc \in {"clean_call", "cleaned_once"}
    /\ fs' = fix_all_tables(fs)
    /\ prev' = fs
    /\ pc' = IF pc = "clean_call" THEN "cleaned_once" ELSE "cleaned_twice"
    /\ UNCHANGED <<call, ret, exc, frame>>

NextClean == FixAllTables

SpecClean == InitClean /\ [][NextClean]_vars

EndsWithEmptyLine(text) == text # <<>> /\ text[Len(text)] = NL

HasLevelTermRow(text) ==
    \E i \in 1..Len(SplitLines(text)) : IsLevelTermRow(SplitLines(text)[i])

IsPanelTable(p) == MappingFor(p) # "skip"

FE_SAMPLE_TAG == "full"
FE_FILTER_TAG == "both"

\* the axis with the bank indicator of noBankFE set
FE_SPECS_bank_everywhere == <<
    <<"mainFE",        TRUE,  TRUE,  TRUE>>,
    <<"noPost2008FE",  TRUE,  TRUE,  FALSE>>,
    <<"noBankFE",      TRUE,  TRUE,  TRUE>>,
    <<"noQuarterFE",   TRUE,  FALSE, TRUE>>,
    <<"onlyBankFE",    TRUE,  FALSE, FALSE>>,
    <<"quarterOnlyFE", FALSE, TRUE,  FALSE>> >>

\* <<fe_tag, bank_fe, quarter_fe, post_fe>>
FE_SPECS == <<
    <<"mainFE",        TRUE,  TRUE,  TRUE>>,
    <<"noPost2008FE",  TRUE,  TRUE,  FALSE>>,
    <<"noBankFE",      FALSE, TRUE,  TRUE>>,
    <<"noQuarterFE",   TRUE,  FALSE, TRUE>>,
    <<"onlyBankFE",    TRUE,  FALSE, FALSE>>,
    <<"quarterOnlyFE", FALSE, TRUE,  FALSE>> >>

SAMPLES_FILTER == <<"full", "pre2008", "top25", "top10">>

\* the filter axis without its last entry
FILTERS_three == <<
    <<"none",   <<"None">> >>,
    <<"growth", <<"Growth">> >>,
    <<"winsor", <<"Winsor">> >> >>

\* <<f_tag, f_label>>
FILTERS == <<
    <<"none",   <<"None">> >>,
    <<"growth", <<"Growth">> >>,
    <<"winsor", <<"Winsor">> >>,
    <<"both",   <<"\\makecell{Growth+", BS, BS, "Winsor}">> >> >>

\* <<tag, label>>
SAMPLES_ROBUST == <<
    <<"full",    <<"Full sample">> >>,
    <<"pre2008", <<"Pre-2008">> >>,
    <<"top25",   <<"Top 25\\% assets">> >>,
    <<"top10",   <<"Top 10\\% assets">> >> >>

ROBUST_FILTER_TAG == "both"

PANELS == <<"A", "B">>

\* ------------------------------------------------------- fragment parsing
\* index of the first line after position `after` that passes Test; 0: none
FirstLine(lines, Test(_), after) ==
    LET S == {i \in (after + 1)..Len(lines) : Test(lines[i])}
    IN  IF S = {} THEN 0 ELSE CHOOSE i \in S : \A j \in S : i <= j

HasToprule(l) == Contains(l, <<"\\toprule">>)
HasMidrule(l) == Contains(l, <<"\\midrule">>)
HasInteractionLabel(l) == Contains(l, <<INTERACTION_LABEL>>)
HasSeparator(l) == AMP \in Range(l)
HasObservations(l) == Contains(l, <<"Observations">>)

\* lines 257-260: the fallback for the names fixest writes
HasRawInteraction(l) ==
    /\ Contains(l, <<L1_ESCAPED>>) \/ Contains(l, <<L1_PLAIN>>)
    /\ \/ Contains(l, <<"dFF">>)
       \/ Contains(l, <<"d_FF">>)
       \/ Contains(l, <<SP, "x", SP, "dFF">>)
       \/ Contains(l, <<"\\times", SP, "dFF">>)

NoParse == [exc |-> NoExc, header_vars |-> <<>>, header_nums |-> <<>>,
            coefs |-> <<>>, ses |-> <<>>, obs |-> <<>>,
            top_idx |-> 0, mid_idx |-> 0, int_idx |-> 0, se_idx |-> 0]

ParseFails(e) == [NoParse EXCEPT !.exc = e]

\* next(...) on an exhausted generator, and a list index out of range: neither
\* message names what was looked for or the file
StopIteration_naming_marker == Raise("ValueError", "marker", NoPath)
StopIteration == Raise("StopIteration", "none", NoPath)
IndexError == Raise("IndexError", "none", NoPath)

\* lines 238-243 and 407-412: the header block, common to both parsers.
\* Line numbers are 1-based here (the source's are 0-based).
ParseHeader(lines) ==
    LET top_idx == FirstLine(lines, HasToprule, 0)
        mid_idx == FirstLine(lines, HasMidrule, top_idx)
        header_lines == SubSeq(lines, top_idx + 1, mid_idx - 1)
    IN  IF top_idx = 0 THEN ParseFails(StopIteration)
        ELSE IF mid_idx = 0 THEN ParseFails(StopIteration)
        ELSE IF Len(header_lines) < 1 THEN ParseFails(IndexError)
        ELSE IF Len(header_lines) < 2 THEN ParseFails(IndexError)
        ELSE [NoParse EXCEPT
                 !.header_vars = extract_values_from_row(header_lines[1], TRUE),
                 !.header_nums = extract_values_from_row(header_lines[2], TRUE),
                 !.top_idx = top_idx,
                 !.mid_idx = mid_idx]

\* lines 267-281 and 419-437: the coefficient row at int_idx and the row of
\* standard errors, the first later line with a '&'
ParseRows(h, lines, int_idx, path) ==
    LET se_idx == FirstLine(lines, HasSeparator, int_idx)
    IN  IF se_idx = 0
        THEN ParseFails(Raise("ValueError", "SE row", path))
        ELSE [h EXCEPT
                 !.coefs = extract_values_from_row(lines[int_idx], TRUE),
                 !.ses = extract_values_from_row(lines[se_idx], TRUE),
                 !.int_idx = int_idx,
                 !.se_idx = se_idx]

parse_panel_file_fe(path, text) ==
    LET lines == SplitLines(text)
        h == ParseHeader(lines)
        pretty == FirstLine(lines, HasInteractionLabel, 0)
        int_idx == IF pretty # 0 THEN pretty
                   ELSE FirstLine(lines, HasRawInteraction, 0)
    IN  IF h.exc # NoExc THEN h
        ELSE IF int_idx = 0
             THEN ParseFails(Raise("ValueError", "interaction row", path))
        ELSE ParseRows(h, lines, int_idx, path)

parse_panel_file_with_obs(path, text) ==
    LET lines == SplitLines(text)
        h == ParseHeader(lines)
        int_idx == FirstLine(lines, HasInteractionLabel, 0)
        r == ParseRows(h, lines, int_idx, path)
        obs_idx == FirstLine(lines, HasObservations, 0)
    IN  IF h.exc # NoExc THEN h
        ELSE IF int_idx = 0 THEN ParseFails(StopIteration)
        ELSE IF r.exc # NoExc THEN r
        ELSE IF obs_idx = 0 THEN ParseFails(StopIteration)
        ELSE [r EXCEPT !.obs = extract_values_from_row(lines[obs_idx], TRUE)]

Parse(parser, path, text) ==
    IF parser = "fe" THEN parse_panel_file_fe(path, text)
    ELSE parse_panel_file_with_obs(path, text)

\* ------------------------------------------------------ composite builders
Exists(files, p) == p \in DOMAIN files /\ files[p].exists

\* out_path.write_text(out_text)
WriteText(files, path, text) ==
    [p \in (DOMAIN files) \cup {path} |-> IF p = path THEN File(text) ELSE files[p]]

\* the reading loop of a builder (lines 306-320, 454-470, 544-560) from source
\* i on: the first exception met, or the parsed fragments in axis order
RECURSIVE ReadFragments(_, _, _, _)

\* a reading loop that compares every fragment's header with the next one's
ReadOn_comparing_headers(r, rest) ==
    IF rest.exc # NoExc THEN rest
    ELSE IF rest.parsed # <<>> /\ rest.parsed[1].header_vars # r.header_vars
         THEN [exc |-> Raise("ValueError", "header", NoPath), parsed |-> <<>>]
    ELSE [exc |-> NoExc, parsed |-> <<r>> \o rest.parsed]

\* the loop goes on after fragment i parsed as r: no header is compared
\* (lines 318-319: the first fragment's header lists are the ones kept)
ReadOn(r, rest) ==
    IF rest.exc # NoExc THEN rest
    ELSE [exc |-> NoExc, parsed |-> <<r>> \o rest.parsed]

\* the loop body after the parser returned r (or raised r.exc) on source i
ReadParsed(r, files, srcs, parser, i) ==
    IF r.exc # NoExc THEN [exc |-> r.exc, parsed |-> <<>>]
    ELSE ReadOn(r, ReadFragments(files, srcs, parser, i + 1))

\* a reading loop that passes over a source that is not there
ReadFragments_skipping_missing(files, srcs, parser, i) ==
    IF i > Len(srcs) THEN [exc |-> NoExc, parsed |-> <<>>]
    ELSE IF ~Exists(files, srcs[i])
         THEN ReadFragments(files, srcs, parser, i + 1)
    ELSE ReadParsed(Parse(parser, srcs[i], files[srcs[i]].text),
                    files, srcs, parser, i)

ReadFragments(files, srcs, parser, i) ==
    IF i > Len(srcs) THEN [exc |-> NoExc, parsed |-> <<>>]
    ELSE IF ~Exists(files, srcs[i])
         THEN [exc |-> Raise("FileNotFoundError", "source table", srcs[i]),
               parsed |-> <<>>]
    ELSE ReadParsed(Parse(parser, srcs[i], files[srcs[i]].text),
                    files, srcs, parser, i)

Spaces(n) == [i \in 1..n |-> SP]
Repeat(c, n) == [i \in 1..n |-> c]

\* rf"\makecell{{{c} \\ {s}}}" for c, s in zip(coefs, ses)
MakeCells(coefs, ses) ==
    LET n == IF Len(coefs) < Len(ses) THEN Len(coefs) ELSE Len(ses)
    IN  [i \in 1..n |-> <<"\\makecell{">> \o coefs[i] \o <<SP, BS, BS, SP>>
                            \o ses[i] \o <<"}">>]

\* " & ".join(cells)
JoinCells(cells) == Join(cells, <<SP, AMP, SP>>)

\* obs_vals[0] if obs_vals else ""
FirstObs(obs) ==
    LET obs_vals == NonEmpty(obs)
    IN  IF obs_vals # <<>> THEN obs_vals[1] ELSE <<>>

TabularStarOpen(col_spec) ==
    <<"\\begin{tabular", "*", "}", "{\\textwidth}{@{\\extracolsep{\\fill}}">>
        \o col_spec \o <<"@{}", "}">>

MulticolumnLine(n_cols) ==
    Spaces(3) \o <<"\\multicolumn{">> \o NatToDigits(n_cols)
        \o <<"}{c}{", INTERACTION_LABEL, "}", BS, BS>>

Closing == << Spaces(3) \o <<"\\bottomrule">>, TABULAR_STAR_END, <<"\\par\\endgroup">> >>

\* ---- source and output paths
SourcesFilters(sample_tag, panel) ==
    [i \in 1..Len(FILTERS) |-> <<"t8", panel, sample_tag, FILTERS[i][1]>>]
OutFilters(sample_tag, panel) == <<"t8", panel, sample_tag, "composite">>

SourcesFE(sample_tag, filter_tag, panel) ==
    [i \in 1..Len(FE_SPECS) |-> <<"t8", panel, sample_tag, filter_tag, FE_SPECS[i][1]>>]
OutFE(sample_tag, filter_tag, panel) ==
    <<"t8", panel, sample_tag, filter_tag, "FEcomposite">>

SourcesSamples(panel) ==
    [i \in 1..Len(SAMPLES_ROBUST) |->
        <<"t8", panel, SAMPLES_ROBUST[i][1], ROBUST_FILTER_TAG>>]
OutSamples(panel) == <<"t8", panel, "robustness", "composite">>

\* ---- lines 562-613 (and 472-522): the text of a composite with a label
\* column and an Obs. column, one data row per axis value
LabelledCompositeText(first_label, labels, parsed) ==
    LET header_vars == parsed[1].header_vars
        header_nums == parsed[1].header_nums
        k == Len(header_vars)
        n_cols == k + 2
        col_spec == <<"l">> \o Repeat("c", k) \o <<"c">>
        h1 == JoinCells(header_vars)
        h2 == JoinCells(header_nums)
        DataRow(i) ==
            Spaces(3) \o labels[i] \o <<SP, AMP, SP>>
                \o JoinCells(MakeCells(parsed[i].coefs, parsed[i].ses))
                \o <<SP, AMP, SP>> \o FirstObs(parsed[i].obs) \o <<BS, BS>>
        out_lines ==
            << <<"\\begingroup">>,
               <<"\\centering">>,
               TabularStarOpen(col_spec),
               Spaces(3) \o <<"\\toprule">>,
               Spaces(3) \o <<first_label, SP, AMP, SP>> \o h1
                   \o <<SP, AMP, SP, "Obs.", BS, BS>>,
               Spaces(10) \o <<AMP, SP>> \o h2 \o <<SP, AMP, SP, BS, BS>>,
               Spaces(3) \o <<"\\midrule">>,
               MulticolumnLine(n_cols),
               Spaces(3) \o <<"\\midrule">> >>
            \o [i \in 1..Len(parsed) |-> DataRow(i)]
            \o Closing
    IN  Join(out_lines, <<NL>>)

\* ---- lines 322-383: the text of the FE composite
bank_header == <<"\\makecell[c]{Bank", BS, BS, "f.e.}">>
quarter_header == <<"\\makecell[c]{Quarter", BS, BS, "f.e.}">>
post_header == <<"\\makecell[c]{Bank $\\times$", BS, BS, "2008 f.e.}">>

Symbol(active) == IF active THEN <<"Y">> ELSE <<>>

FECompositeText(parsed) ==
    LET header_vars == parsed[1].header_vars
        header_nums == parsed[1].header_nums
        k == Len(header_vars)
        n_cols == 3 + k
        col_spec == Repeat("c", n_cols)
        h1_vars == JoinCells(header_vars)
        h2_nums == JoinCells(header_nums)
        DataRow(i) ==
            Spaces(3) \o Symbol(FE_SPECS[i][2]) \o <<SP, AMP, SP>>
                \o Symbol(FE_SPECS[i][3]) \o <<SP, AMP, SP>>
                \o Symbol(FE_SPECS[i][4]) \o <<SP, AMP, SP>>
                \o JoinCells(MakeCells(parsed[i].coefs, parsed[i].ses))
                \o <<BS, BS>>
        out_lines ==
            << <<"\\begingroup">>,
               <<"\\centering">>,
               TabularStarOpen(col_spec),
               Spaces(3) \o <<"\\toprule">>,
               Spaces(3) \o bank_header \o <<SP, AMP, SP>> \o quarter_header
                   \o <<SP, AMP, SP>> \o post_header \o <<SP, AMP, SP>> \o h1_vars
                   \o <<BS, BS>>,
               Spaces(11) \o <<AMP>> \o Spaces(15) \o <<AMP>> \o Spaces(20)
                   \o <<AMP, SP>> \o h2_nums \o <<BS, BS>>,
               Spaces(3) \o <<"\\midrule">>,
               MulticolumnLine(n_cols),
               Spaces(3) \o <<"\\midrule">> >>
            \o [i \in 1..Len(parsed) |-> DataRow(i)]
            \o Closing
    IN  Join(out_lines, <<NL>>)

\* ---- the builders: the exception raised (NoExc: returned) and tables/ after
\* a builder after its reading loop ended with r: nothing is written when the
\* loop raised, else the composite `text` goes to `out`
Composed(files, r, out, first_label, labels) ==
    IF r.exc # NoExc THEN [exc |-> r.exc, files |-> files]
    ELSE [exc |-> NoExc,
          files |-> WriteText(files, out,
                        IF first_label = "FE" THEN FECompositeText(r.parsed)
                        ELSE LabelledCompositeText(first_label, labels, r.parsed))]

build_composite_panel_filters(files, sample_tag, panel) ==
    Composed(files,
             ReadFragments(files, SourcesFilters(sample_tag, panel), "obs", 1),
             OutFilters(sample_tag, panel),
             "Filter", [i \in 1..Len(FILTERS) |-> FILTERS[i][2]])

build_composite_panel_fe(files, sample_tag, filter_tag, panel) ==
    Composed(files,
             ReadFragments(files, SourcesFE(sample_tag, filter_tag, panel), "fe", 1),
             OutFE(sample_tag, filter_tag, panel),
             "FE", <<>>)

build_composite_panel_samples(files, panel) ==
    Composed(files,
             ReadFragments(files, SourcesSamples(panel), "obs", 1),
             OutSamples(panel),
             "Sample", [i \in 1..Len(SAMPLES_ROBUST) |-> SAMPLES_ROBUST[i][2]])

\* ------------------------------------- specification: composite builders
\* how many of the fragments of one composite differ from the regular one
MaxOddFragments == 1

\* the header cells of a cleaned fragment of a panel (two regressions)
HeaderCells(panel) ==
    IF panel = "A"
    THEN <<replacements_panelA[1][2], replacements_panelA[2][2]>>
    ELSE <<replacements_panelB[1][2], replacements_panelB[6][2]>>

Swap(pair) == <<pair[2], pair[1]>>

\* the lines of a cleaned fragment as fixest writes it: header block, the
\* interaction row with the row of standard errors under it, observations
FragmentLines(header, label, coefs, ses) ==
    << TABULAR_STAR_BEGIN,
       Spaces(3) \o <<"\\toprule">>,
       <<"Dependent Variables:", SP, AMP, SP>> \o JoinCells(header) \o <<BS, BS>>,
       <<"Model:", SP, AMP, SP, "(1)", SP, AMP, SP, "(2)", BS, BS>>,
       Spaces(3) \o <<"\\midrule">>,
       label \o <<SP, AMP, SP>> \o JoinCells(coefs) \o <<BS, BS>>,
       Spaces(3) \o <<AMP, SP>> \o JoinCells(ses) \o <<BS, BS>>,
       Spaces(3) \o <<"\\midrule">>,
       <<"Observations", SP, AMP, SP, "4,848", SP, AMP, SP, "4,848", BS, BS>>,
       Spaces(3) \o <<"\\bottomrule">>,
       TABULAR_STAR_END >>

COEFS == << <<"-", "1", ".", "5", "5", "5", "$^{***}$">>, <<"0", ".", "2", "0", "0">> >>
SES == << <<"(", "0", ".", "0", "2", "7", ")">>, <<"(", "0", ".", "3", "1", "0", ")">> >>
OTHER_COEFS == << <<"-", "2", ".", "0", "0", "0">>, <<"0", ".", "2", "0", "0">> >>
\* an interaction row whose first regression reports no coefficient
EMPTY_FIRST_COEF == << <<>>, <<"0", ".", "2", "0", "0">> >>

\* the sequence s without the members at the positions of drop
RECURSIVE Without(_, _, _)
Without(s, drop, i) ==
    IF i > Len(s) THEN <<>>
    ELSE (IF i \in drop THEN <<>> ELSE <<s[i]>>) \o Without(s, drop, i + 1)

\* the lines that a defective fragment lacks
DroppedLines(variant) ==
    CASE variant = "no_toprule" -> {2}
      [] variant = "no_midrule" -> {5, 8}
      [] variant = "no_header" -> {3, 4}
      [] variant = "one_header_line" -> {4}
      [] variant = "no_interaction" -> {6}
      [] variant = "no_se" -> {7, 9}
      [] variant = "no_obs" -> {9}
      [] OTHER -> {}

OddVariants ==
    {"missing", "no_toprule", "no_midrule", "no_header", "one_header_line",
     "no_interaction", "no_se", "no_obs", "other_header", "other_values",
     "raw_label", "empty_cell"}

FragmentFile(panel, variant) ==
    IF variant = "missing" THEN Missing
    ELSE LET header == IF variant = "other_header" THEN Swap(HeaderCells(panel))
                       ELSE HeaderCells(panel)
             label == IF variant = "raw_label" THEN INTERACTION_RAW
                      ELSE <<INTERACTION_LABEL>>
             coefs == IF variant = "other_values" THEN OTHER_COEFS
                      ELSE IF variant = "empty_cell" THEN EMPTY_FIRST_COEF
                      ELSE COEFS
             lines == FragmentLines(header, label, coefs, SES)
         IN  File(Join(Without(lines, DroppedLines(variant), 1), <<NL>>))

FilterCalls ==
    {[fn |-> "build_composite_panel_filters", sample_tag |-> SAMPLES_FILTER[s],
      filter_tag |-> "", panel |-> PANELS[p]] :
        s \in 1..Len(SAMPLES_FILTER), p \in 1..Len(PANELS)}
FECalls ==
    {[fn |-> "build_composite_panel_fe", sample_tag |-> FE_SAMPLE_TAG,
      filter_tag |-> FE_FILTER_TAG, panel |-> PANELS[p]] : p \in 1..Len(PANELS)}
SampleCalls ==
    {[fn |-> "build_composite_panel_samples", sample_tag |-> "",
      filter_tag |-> ROBUST_FILTER_TAG, panel |-> PANELS[p]] : p \in 1..Len(PANELS)}

\* the fragments a call reads, in axis order, and the file it writes
Sources(c) ==
    IF c.fn = "build_composite_panel_filters" THEN SourcesFilters(c.sample_tag, c.panel)
    ELSE IF c.fn = "build_composite_panel_fe"
         THEN SourcesFE(c.sample_tag, c.filter_tag, c.panel)
    ELSE SourcesSamples(c.panel)
OutPath(c) ==
    IF c.fn = "build_composite_panel_filters" THEN OutFilters(c.sample_tag, c.panel)
    ELSE IF c.fn = "build_composite_panel_fe"
         THEN OutFE(c.sample_tag, c.filter_tag, c.panel)
    ELSE OutSamples(c.panel)
ParserOf(c) == IF c.fn = "build_composite_panel_fe" THEN "fe" ELSE "obs"

IndexOf(srcs, p) == CHOOSE i \in 1..Len(srcs) : srcs[i] = p

InitBuild ==
    \E c \in FilterCalls \cup FECalls \cup SampleCalls :
      \E odd \in {o \in SUBSET (1..Len(Sources(c))) : Cardinality(o) <= MaxOddFragments} :
        \E w \in [odd -> OddVariants] :
            /\ pc = "build_call"
            /\ call = c
            /\ ret = <<>>
            /\ exc = NoExc
            /\ fs = [p \in Range(Sources(c)) |->
                        LET i == IndexOf(Sources(c), p)
                        IN  FragmentFile(c.panel, IF i \in odd THEN w[i] ELSE "good")]
            /\ prev = NoFs
            /\ frame = NoFrame

Finish(r) ==
    /\ fs' = r.files
    /\ exc' = r.exc
    /\ prev' = fs
    /\ pc' = IF r.exc = NoExc THEN "build_returned" ELSE "build_raised"
    /\ UNCHANGED <<call, ret, frame>>

BuildFilters ==
    /\ pc = "build_call"
    /\ call.fn = "build_composite_panel_filters"
    /\ Finish(build_composite_panel_filters(fs, call.sample_tag, call.panel))

BuildFE ==
    /\ pc = "build_call"
    /\ call.fn = "build_composite_panel_fe"
    /\ Finish(build_composite_panel_fe(fs, call.sample_tag, call.filter_tag, call.panel))

BuildSamples ==
    /\ pc = "build_call"
    /\ call.fn = "build_composite_panel_samples"
    /\ Finish(build_composite_panel_samples(fs, call.panel))

NextBuild == BuildFilters \/ BuildFE \/ BuildSamples

SpecBuild == InitBuild /\ [][NextBuild]_vars


\* ------------------------------------------------- claims on the builders
\* a build has ended; prev is tables/ as the build found it
BuildDone == pc \in {"build_returned", "build_raised"}

\* what each parser makes of each fragment text of this specification
FragmentTexts ==
    {FragmentFile(PANELS[p], v).text :
        p \in 1..Len(PANELS), v \in OddVariants \cup {"good"}}
ParsedAs ==
    [parser \in {"fe", "obs"}, text \in FragmentTexts |->
        Parse(parser, NoPath, text)]

\* what the parser of the call makes of its i-th source as the build found it
Fragment(i) == ParsedAs[ParserOf(call), prev[Sources(call)[i]].text]
Readable(i) == Exists(prev, Sources(call)[i]) /\ Fragment(i).exc = NoExc
AllReadable == \A i \in 1..Len(Sources(call)) : Readable(i)

\* two readable fragments of the composite disagree on the header variables
HeadersDiffer ==
    \E i, j \in 1..Len(Sources(call)) :
        /\ Readable(i) /\ Readable(j)
        /\ Fragment(i).header_vars # Fragment(j).header_vars

\* the composite the build wrote, line by line
Composite == SplitLines(fs[OutPath(call)].text)

\* C1 (as stated): a build whose fragments disagree on the header-variable
\* list ends in a fatal error and writes no composite file.
C1_HeaderMismatchIsFatal ==
    (BuildDone /\ HeadersDiffer) =>
        (pc = "build_raised" /\ ~Exists(fs, OutPath(call)))

\* C1 (amended): the builders do not compare headers.  When every fragment
\* exists and parses, the build returns and writes the composite; its header
\* line carries the header variables of the first fragment, and a differing
\* header list of a later fragment appears nowhere in it.
C1_FirstFragmentHeaderKept ==
    (BuildDone /\ AllReadable) =>
        /\ pc = "build_returned"
        /\ Exists(fs, OutPath(call))
        /\ Contains(Composite[5], JoinCells(Fragment(1).header_vars))
        /\ \A i \in 1..Len(Sources(call)) :
              Fragment(i).header_vars # Fragment(1).header_vars =>
                  ~Contains(fs[OutPath(call)].text,
                            JoinCells(Fragment(i).header_vars))

\* a build that returned although one fragment had another header list
C1_Witness ==
    /\ pc = "build_returned"
    /\ HeadersDiffer
    /\ Exists(fs, OutPath(call))


\* the i-th source is the first one the reading loop cannot open: the sources
\* before it exist and parse
FirstMissing(i) ==
    /\ ~Exists(prev, Sources(call)[i])
    /\ \A j \in 1..(i - 1) : Readable(j)

\* C3: in every builder, at whichever axis value the reading loop finds the
\* source file missing, the build stops with a FileNotFoundError that names
\* that path; and a build with any source missing ends in an error and leaves
\* tables/ as it found it, its composite unwritten.
C3_MissingFragmentIsFatal ==
    BuildDone =>
        /\ \A i \in 1..Len(Sources(call)) :
              FirstMissing(i) =>
                  /\ pc = "build_raised"
                  /\ exc.type = "FileNotFoundError"
                  /\ exc.path = Sources(call)[i]
        /\ (\E i \in 1..Len(Sources(call)) : ~Exists(prev, Sources(call)[i])) =>
              /\ pc = "build_raised"
              /\ fs = prev
              /\ ~Exists(fs, OutPath(call))

\* a build stopped at a missing source that is not the first axis value
C3_Witness ==
    /\ pc = "build_raised"
    /\ exc.type = "FileNotFoundError"
    /\ \E i \in 2..Len(Sources(call)) : FirstMissing(i) /\ exc.path = Sources(call)[i]


\* the i-th source is the first one the reading loop cannot parse
FirstUnparsable(i) ==
    /\ Exists(prev, Sources(call)[i])
    /\ Fragment(i).exc # NoExc
    /\ \A j \in 1..(i - 1) : Readable(j)

\* C4 (as stated): whichever search fails in a fragment, the error names the
\* element that was looked for and the fragment file.
C4_FailedSearchNamesElementAndFile ==
    BuildDone =>
        \A i \in 1..Len(Sources(call)) :
            FirstUnparsable(i) =>
                /\ pc = "build_raised"
                /\ exc.element # "none"
                /\ exc.path = Sources(call)[i]

\* the search that fails first in the lines L of a fragment, in the order in
\* which the parser searches ("none": every search succeeds)
FailedSearch(L, parser) ==
    LET Some(Test(_), after) == \E k \in (after + 1)..Len(L) : Test(L[k])
        First(Test(_), after) ==
            CHOOSE k \in (after + 1)..Len(L) :
                Test(L[k]) /\ \A j \in (after + 1)..(k - 1) : ~Test(L[j])
        IsInteraction(l) ==
            HasInteractionLabel(l) \/ (parser = "fe" /\ HasRawInteraction(l))
        LabelOrRaw == IF Some(HasInteractionLabel, 0)
                      THEN First(HasInteractionLabel, 0)
                      ELSE First(HasRawInteraction, 0)
    IN  IF ~Some(HasToprule, 0) THEN "header boundary"
        ELSE IF ~Some(HasMidrule, First(HasToprule, 0)) THEN "body boundary"
        ELSE IF First(HasMidrule, First(HasToprule, 0)) - First(HasToprule, 0) < 3
             THEN "header lines"
        ELSE IF ~Some(IsInteraction, 0) THEN "coefficient row"
        ELSE IF ~Some(HasSeparator, LabelOrRaw) THEN "standard-error row"
        ELSE IF parser = "obs" /\ ~Some(HasObservations, 0) THEN "observations row"
        ELSE "none"

\* C4 (amended): every failed search is fatal, and the build it belongs to
\* writes nothing.  The error names the element and the file only for the
\* standard-error row (both parsers) and for the coefficient row in
\* parse_panel_file_fe; a missing boundary marker, a missing observations row
\* and, in parse_panel_file_with_obs, a missing coefficient row end in a
\* StopIteration, and a missing header line in an IndexError, which name
\* neither.
C4_FailedSearchErrors ==
    BuildDone =>
        \A i \in 1..Len(Sources(call)) :
            FirstUnparsable(i) =>
                LET failed == FailedSearch(SplitLines(prev[Sources(call)[i]].text),
                                           ParserOf(call))
                    named == \/ failed = "standard-error row"
                             \/ failed = "coefficient row" /\ ParserOf(call) = "fe"
                IN  /\ failed # "none"
                    /\ pc = "build_raised"
                    /\ fs = prev
                    /\ ~Exists(fs, OutPath(call))
                    /\ named =>
                          /\ exc.type = "ValueError"
                          /\ exc.element =
                                (IF failed = "coefficient row"
                                 THEN "interaction row" ELSE "SE row")
                          /\ exc.path = Sources(call)[i]
                    /\ ~named =>
                          /\ exc.type = (IF failed = "header lines"
                                         THEN "IndexError" ELSE "StopIteration")
                          /\ exc.element = "none"
                          /\ exc.path = NoPath

\* a build that ended in a StopIteration naming nothing, on a fragment that
\* has no observations row
C4_Witness ==
    /\ pc = "build_raised"
    /\ exc.type = "StopIteration"
    /\ exc.path = NoPath
    /\ \E i \in 1..Len(Sources(call)) :
          /\ FirstUnparsable(i)
          /\ FailedSearch(SplitLines(prev[Sources(call)[i]].text), ParserOf(call))
                = "observations row"


\* the data rows of the composite: what stands between the nine opening lines
\* and the three closing ones, each row as its cells
DataRows ==
    LET lines == Composite
    IN  [i \in 1..(Len(lines) - 12) |->
            extract_values_from_row(lines[9 + i], FALSE)]

FilterTagAt(i) == Sources(call)[i][4]

\* the readable fragments report the same coefficients and standard errors
SameValues ==
    \A i, j \in 1..Len(Sources(call)) :
        (Readable(i) /\ Readable(j)) =>
            /\ Fragment(i).coefs = Fragment(j).coefs
            /\ Fragment(i).ses = Fragment(j).ses

\* tables/ holds the fragments of the filters none, growth and winsor and no
\* other fragment of the sample and panel
ThreeFilterFragments ==
    /\ call.fn = "build_composite_panel_filters"
    /\ \A i \in 1..Len(Sources(call)) :
          IF FilterTagAt(i) \in {"none", "growth", "winsor"}
          THEN Readable(i)
          ELSE ~Exists(prev, Sources(call)[i])
    /\ SameValues

\* C7 (as stated): with fragments for the filters none, growth and winsor the
\* filter composite is built and has three data rows.
C7_ThreeFiltersThreeRows ==
    (BuildDone /\ ThreeFilterFragments) =>
        /\ pc = "build_returned"
        /\ Exists(fs, OutPath(call))
        /\ Len(DataRows) = 3

\* the cells of a data row between its label and its observation count
ValueCells(row) == SubSeq(row, 2, Len(row) - 1)

\* C7 (amended): the filter axis has four values.  With the fragments of
\* none, growth and winsor only, the build stops at the missing fragment of
\* "both" and writes nothing.  With all four fragments, reporting the same
\* values, the composite has four data rows in axis order, labelled with the
\* display labels of the filters, with identical value cells that carry the
\* coefficient and the standard error of each regression.
C7_FourFiltersFourRows ==
    (BuildDone /\ call.fn = "build_composite_panel_filters") =>
        /\ ThreeFilterFragments =>
              /\ pc = "build_raised"
              /\ exc.type = "FileNotFoundError"
              /\ FilterTagAt(IndexOf(Sources(call), exc.path)) = "both"
              /\ ~Exists(fs, OutPath(call))
        /\ (AllReadable /\ SameValues) =>
              /\ pc = "build_returned"
              /\ LET rows == DataRows
                 IN  /\ Len(rows) = 4
                     /\ \A i \in 1..4 :
                           /\ rows[i][1] = FILTERS[i][2]
                           /\ FILTERS[i][1] = FilterTagAt(i)
                           /\ ValueCells(rows[i]) = ValueCells(rows[1])
                           /\ Len(ValueCells(rows[i])) = Len(Fragment(1).coefs)
                           /\ \A v \in 1..Len(Fragment(1).coefs) :
                                 /\ Contains(ValueCells(rows[i])[v], Fragment(i).coefs[v])
                                 /\ Contains(ValueCells(rows[i])[v], Fragment(i).ses[v])

\* a filter composite written from four fragments with the same values
C7_Witness ==
    /\ pc = "build_returned"
    /\ call.fn = "build_composite_panel_filters"
    /\ AllReadable /\ SameValues
    /\ Len(DataRows) = 4


\* the data rows of the composite with every cell kept, blank ones too
RawDataRows ==
    LET lines == Composite
    IN  [i \in 1..(Len(lines) - 12) |->
            LET parts == Pieces(lines[9 + i])
            IN  [c \in 1..Len(parts) |-> TrimPiece(parts[c])]]

\* the specifications in configuration order and what their tags say
FE_TAGS ==
    <<"mainFE", "noPost2008FE", "noBankFE", "noQuarterFE", "onlyBankFE",
      "quarterOnlyFE">>
BankActive(tag) == tag \in {"mainFE", "noPost2008FE", "noQuarterFE", "onlyBankFE"}
QuarterActive(tag) == tag \in {"mainFE", "noPost2008FE", "noBankFE", "quarterOnlyFE"}
PostActive(tag) == tag \in {"mainFE", "noBankFE", "noQuarterFE"}

Indicator(active) == IF active THEN <<"Y">> ELSE <<>>

\* C8: the fixed-effect composite has one data row per entry of FE_SPECS, in
\* configuration order (row i carries the values of the fragment of the i-th
\* tag); its first three cells are "Y" or blank as the Bank, Quarter and
\* Bank-times-2008 groups are active in the specification the tag names; and
\* the table has no observation-count column: 3 + k columns for k
\* regressions, no "Obs." header and no count in a row (a row built from a
\* fragment with k coefficients and k standard errors fills all of them).
C8_FixedEffectRows ==
    (pc = "build_returned" /\ call.fn = "build_composite_panel_fe") =>
        LET k == Len(Fragment(1).header_vars)
            lines == Composite
            rows == RawDataRows
        IN  /\ Len(rows) = Len(FE_TAGS)
            /\ Len(FE_SPECS) = Len(FE_TAGS)
            /\ \A i \in 1..Len(FE_TAGS) :
                  /\ FE_SPECS[i][1] = FE_TAGS[i]
                  /\ Sources(call)[i][5] = FE_TAGS[i]
                  /\ rows[i][1] = Indicator(BankActive(FE_TAGS[i]))
                  /\ rows[i][2] = Indicator(QuarterActive(FE_TAGS[i]))
                  /\ rows[i][3] = Indicator(PostActive(FE_TAGS[i]))
                  /\ (Len(Fragment(i).coefs) = k /\ Len(Fragment(i).ses) = k) =>
                        /\ Len(rows[i]) = 3 + k
                        /\ \A v \in 1..k :
                              /\ Contains(rows[i][3 + v], Fragment(i).coefs[v])
                              /\ Contains(rows[i][3 + v], Fragment(i).ses[v])
            /\ lines[3] = TabularStarOpen([c \in 1..(3 + k) |-> "c"])
            /\ Len(Pieces(lines[5])) = 3 + k
            /\ ~Contains(fs[OutPath(call)].text, <<"Obs.">>)
            /\ ~Contains(fs[OutPath(call)].text, <<"4,848">>)

\* a fixed-effect composite was written, its noBankFE row with a blank Bank
\* cell, from fragments of which one reports other values than the rest
C8_Witness ==
    /\ pc = "build_returned"
    /\ call.fn = "build_composite_panel_fe"
    /\ Len(RawDataRows) = 6
    /\ RawDataRows[3][1] = <<>>
    /\ RawDataRows[3][2] = <<"Y">>
    /\ ~SameValues


\* ================================================== 1_process_data.py
\* A data frame is a sequence of rows (records).  Of the columns only those
\* are kept that the merges and the growth flag read: the identifiers, the
\* quarter, total assets; the other features of section 2 of the script are
\* computed row by row from columns left out here.
\* A missing value (NaN, <NA>) of a numeric column
NaN == -1

\* lines 84-88: the constants of the restriction
STATE_CHARTER == 200
MISCODED_RSSDID == 3637685
CORRECT_CERT == 58647
FIRST_YEAR_LOADED == 1993
LAST_YEAR_LOADED == 2014
\* line 177: the regression sample
FIRST_YEAR_SAMPLE == 1994
LAST_YEAR_SAMPLE == 2013

\* the rows of df that pass Keep, order kept (a boolean-mask selection)
Select(df, Keep(_)) ==
    LET kept == {i \in 1..Len(df) : Keep(df[i])}
        Nth(k) == CHOOSE i \in kept : Cardinality({j \in kept : j < i}) = k - 1
    IN  [k \in 1..Cardinality(kept) |-> df[Nth(k)]]

\* lines 83-88: charter filter, certificate fix, years kept for the lags
LoadCallReports(raw) ==
    LET IsStateCharter(r) == r.chartertype = STATE_CHARTER
        FixCert(r) == IF r.rssdid = MISCODED_RSSDID
                      THEN [r EXCEPT !.cert = CORRECT_CERT] ELSE r
        InYears(r) == r.year >= FIRST_YEAR_LOADED /\ r.year <= LAST_YEAR_LOADED
        chartered == Select(raw, IsStateCharter)
        fixed == [i \in 1..Len(chartered) |-> FixCert(chartered[i])]
    IN  Select(fixed, InYears)

\* the merge keys
CertQuarter(r) == <<r.cert, r.year, r.quarter>>
Quarter(r) == <<r.year, r.quarter>>

\* pandas validate=: no key occurs in two rows
KeysUnique(df, Key(_)) ==
    \A i, j \in 1..Len(df) : Key(df[i]) = Key(df[j]) => i = j

\* pandas how="left": every left row in order, once per right row with its
\* key, or once with the right-hand columns missing when there is none
LeftJoin(left, right, Key(_), Both(_, _), LeftOnly(_)) ==
    LET RowsFor(l) ==
            LET SameKey(r) == Key(r) = Key(l)
                matches == Select(right, SameKey)
            IN  IF matches = <<>> THEN <<LeftOnly(l)>>
                ELSE [m \in 1..Len(matches) |-> Both(l, matches[m])]
    IN  Flatten([i \in 1..Len(left) |-> RowsFor(left[i])])

MergeError == Raise("MergeError", "merge keys", NoPath)

\* lines 94-102: cr.merge(l1[...], on=[cert, year, quarter], how="left",
\* validate="1:1", indicator="_merge"): the joined frame
join_l1(cr, l1) ==
    LET Both(l, r) == [rssdid |-> l.rssdid, cert |-> l.cert, year |-> l.year,
                       quarter |-> l.quarter, assets |-> l.assets,
                       l1_herfdepcty |-> r.l1_herfdepcty, merge |-> "both"]
        LeftOnly(l) == [rssdid |-> l.rssdid, cert |-> l.cert, year |-> l.year,
                        quarter |-> l.quarter, assets |-> l.assets,
                        l1_herfdepcty |-> NaN, merge |-> "left_only"]
    IN  LeftJoin(cr, l1, CertQuarter, Both, LeftOnly)

\* the merge without validate=
merge_l1_unvalidated(cr, l1) == [exc |-> NoExc, df |-> join_l1(cr, l1)]

\* the merge: the keys are validated on both sides before anything is joined
merge_l1(cr, l1) ==
    IF KeysUnique(cr, CertQuarter) /\ KeysUnique(l1, CertQuarter)
    THEN [exc |-> NoExc, df |-> join_l1(cr, l1)]
    ELSE [exc |-> MergeError, df |-> cr]

\* quarters counted from year 0, and back
QuarterNo(year, quarter) == 4 * year + quarter - 1
YearOf(n) == n \div 4
QuarterOf(n) == (n % 4) + 1

\* helper_functions.py, lines 56-83: the target-rate observations, each
\* [year, quarter, day, rate], resampled to one row per quarter from the
\* first observed quarter to the last; a quarter's rate is that of its last
\* observation, missing when it has none.  The rate stays in the units of the
\* observations (line 72 rescales it); its first difference d_FF (line 74)
\* is read by no step modelled here and is left out.
get_ff_rate(observations) ==
    LET nos == {QuarterNo(o.year, o.quarter) : o \in observations}
        first == CHOOSE n \in nos : \A m \in nos : n <= m
        last == CHOOSE n \in nos : \A m \in nos : m <= n
        In(n) == {o \in observations : QuarterNo(o.year, o.quarter) = n}
        Last(n) == CHOOSE o \in In(n) : \A p \in In(n) : p.day <= o.day
        FF(n) == IF In(n) = {} THEN NaN ELSE Last(n).rate
    IN  IF observations = {} THEN <<>>
        ELSE [k \in 1..(last - first + 1) |->
                 [year |-> YearOf(first + k - 1),
                  quarter |-> QuarterOf(first + k - 1),
                  FF |-> FF(first + k - 1)]]

\* lines 104-111: cr.merge(fund_rate[...], on=[year, quarter], how="left",
\* validate="m:1")
merge_ff(cr, fund_rate) ==
    LET Both(l, r) == [rssdid |-> l.rssdid, cert |-> l.cert, year |-> l.year,
                       quarter |-> l.quarter, assets |-> l.assets,
                       l1_herfdepcty |-> l.l1_herfdepcty, merge |-> l.merge,
                       FF |-> r.FF]
        LeftOnly(l) == [rssdid |-> l.rssdid, cert |-> l.cert, year |-> l.year,
                        quarter |-> l.quarter, assets |-> l.assets,
                        l1_herfdepcty |-> l.l1_herfdepcty, merge |-> l.merge,
                        FF |-> NaN]
    IN  IF KeysUnique(fund_rate, Quarter)
        THEN [exc |-> NoExc, df |-> LeftJoin(cr, fund_rate, Quarter, Both, LeftOnly)]
        ELSE [exc |-> MergeError, df |-> cr]

\* line 145: cr.sort_values(["rssdid", "dateq"]); dateq is the quarter of the
\* row.  No two rows of a frame here have the same bank and quarter.
sort_values(df) ==
    LET Before(a, b) ==
            \/ a.rssdid < b.rssdid
            \/ a.rssdid = b.rssdid
               /\ QuarterNo(a.year, a.quarter) < QuarterNo(b.year, b.quarter)
        Rank(i) == Cardinality({j \in 1..Len(df) : Before(df[j], df[i])}) + 1
    IN  [k \in 1..Len(df) |-> df[CHOOSE i \in 1..Len(df) : Rank(i) = k]]

\* pandas pct_change(fill_method=None) on one value and the one before it:
\* cur / prev - 1 in floating point, as NaN, +inf or the fraction num / den
pct_change(prev_value, cur_value) ==
    IF prev_value = NaN \/ cur_value = NaN THEN [kind |-> "nan", num |-> 0, den |-> 1]
    ELSE IF prev_value = 0
         THEN IF cur_value = 0 THEN [kind |-> "nan", num |-> 0, den |-> 1]
              ELSE [kind |-> "inf", num |-> 0, den |-> 1]
    ELSE [kind |-> "num", num |-> cur_value - prev_value, den |-> prev_value]

\* growth >= 1: False for NaN
AtLeastOne(growth) ==
    \/ growth.kind = "inf"
    \/ growth.kind = "num" /\ growth.num >= growth.den

\* lines 159-160 on the sorted frame: the change within the rows of one
\* rssdid (the first row of a group has none), compared, filled, cast
high_asset_growth(df, k) ==
    LET growth_assets ==
            IF k = 1 \/ df[k - 1].rssdid # df[k].rssdid
            THEN [kind |-> "nan", num |-> 0, den |-> 1]
            ELSE pct_change(df[k - 1].assets, df[k].assets)
    IN  IF AtLeastOne(growth_assets) THEN 1 ELSE 0

\* section 2 of the script, as far as modelled: sort, growth flag
construct_features(cr) ==
    LET df == sort_values(cr)
    IN  [k \in 1..Len(df) |->
            [rssdid |-> df[k].rssdid, cert |-> df[k].cert, year |-> df[k].year,
             quarter |-> df[k].quarter, assets |-> df[k].assets,
             l1_herfdepcty |-> df[k].l1_herfdepcty, merge |-> df[k].merge,
             FF |-> df[k].FF,
             high_asset_growth |-> high_asset_growth(df, k)]]

\* line 177: the regression sample
trim_sample(cr) ==
    LET InSample(r) == r.year >= FIRST_YEAR_SAMPLE /\ r.year <= LAST_YEAR_SAMPLE
    IN  Select(cr, InSample)


\* ---------------------------------- specification: panel preparation
\* longest concentration series
MaxL1Rows == 2

\* the quarters of the inputs: one before the years loaded, then four in a row
OLD_QUARTER == [year |-> 1992, quarter |-> 4]
QUARTERS == << [year |-> 1993, quarter |-> 4], [year |-> 1994, quarter |-> 1],
               [year |-> 1994, quarter |-> 2], [year |-> 1994, quarter |-> 3] >>

\* target-rate observations: none in the second quarter of 1994
FF_OBSERVED ==
    { [year |-> 1993, quarter |-> 4, day |-> 1, rate |-> 300],
      [year |-> 1994, quarter |-> 1, day |-> 1, rate |-> 300],
      [year |-> 1994, quarter |-> 1, day |-> 2, rate |-> 325],
      [year |-> 1994, quarter |-> 3, day |-> 1, rate |-> 475] }

RawRow(rssdid, cert, chartertype, q, assets) ==
    [rssdid |-> rssdid, cert |-> cert, chartertype |-> chartertype,
     year |-> q.year, quarter |-> q.quarter, assets |-> assets]

\* the rows of a bank, latest quarter first: one for each quarter (by its
\* position in quarters) that has an assets value
BankRows(rssdid, cert, chartertype, quarters, assets) ==
    LET n == Len(quarters)
        Present(k) == k \in DOMAIN assets
        rows == [k \in 1..n |->
                    IF Present(n + 1 - k)
                    THEN <<RawRow(rssdid, cert, chartertype, quarters[n + 1 - k],
                                  assets[n + 1 - k])>>
                    ELSE <<>>]
    IN  Flatten(rows)

AssetValues == {NaN, 0, 100, 150, 210}

\* the assets histories over n quarters: a value for some of the quarters
Histories(n, values) == UNION {[S -> values] : S \in SUBSET (1..n)}

\* inputs for the growth flag: a bank with any assets history over the four
\* quarters, listed after a second bank, and a one-row concentration series
GrowthInputs ==
    { [raw |-> BankRows(1002, 8, STATE_CHARTER, SubSeq(QUARTERS, 1, 2), b)
                 \o BankRows(1001, 7, STATE_CHARTER, QUARTERS, a),
       l1 |-> << [cert |-> 7, year |-> 1994, quarter |-> 1, l1_herfdepcty |-> 20] >>] :
        a \in Histories(4, AssetValues), b \in [1..2 -> {100, 210}] }

\* inputs for the merges: two banks, one of them the miscoded one, with either
\* certificate and charter, each with a row in an old quarter and in the first
\* quarter of 1994 or without; any short concentration series
Certs == {7, CORRECT_CERT}
Charters == {STATE_CHARTER, 300}
L1Rows ==
    { [cert |-> c, year |-> QUARTERS[q].year, quarter |-> QUARTERS[q].quarter,
       l1_herfdepcty |-> 20] : c \in Certs, q \in 2..3 }
MergeInputs ==
    { [raw |-> BankRows(1001, c1, t1, <<OLD_QUARTER, QUARTERS[2]>>, a1)
                 \o BankRows(MISCODED_RSSDID, c2, t2, <<OLD_QUARTER, QUARTERS[2]>>, a2),
       l1 |-> l1] :
        c1 \in Certs, c2 \in Certs, t1 \in Charters, t2 \in Charters,
        a1 \in Histories(2, {100}), a2 \in Histories(2, {100}),
        l1 \in SeqsUpTo(L1Rows, MaxL1Rows) }

NotWritten == [written |-> FALSE, rows |-> <<>>]

InitPanel ==
    /\ pc = "panel_start"
    /\ call = <<>>
    /\ ret = <<>>
    /\ exc = NoExc
    /\ fs = NoFs
    /\ prev = NoFs
    /\ \E input \in GrowthInputs \cup MergeInputs :
          frame = [stage |-> "inputs", raw |-> input.raw, l1 |-> input.l1,
                   loaded |-> <<>>, cr |-> <<>>, derived |-> FALSE,
                   out |-> NotWritten]


\* lines 83-92: read, restrict, load the concentration series
LoadAndRestrict ==
    /\ pc = "panel_start"
    /\ frame' = [frame EXCEPT !.loaded = LoadCallReports(frame.raw),
                              !.cr = LoadCallReports(frame.raw)]
    /\ pc' = "loaded"
    /\ UNCHANGED <<call, ret, exc, fs, prev>>

\* a merge returned r, or raised r.exc: an exception ends the script
Merged(r, next_pc) ==
    /\ exc' = r.exc
    /\ frame' = [frame EXCEPT !.cr = r.df]
    /\ pc' = IF r.exc = NoExc THEN next_pc ELSE "panel_failed"
    /\ UNCHANGED <<call, ret, fs, prev>>

\* lines 94-102
MergeConcentration ==
    /\ pc = "loaded"
    /\ Merged(merge_l1(frame.cr, frame.l1), "merged_l1")

\* lines 104-111
MergePolicyRate ==
    /\ pc = "merged_l1"
    /\ Merged(merge_ff(frame.cr, get_ff_rate(FF_OBSERVED)), "merged_ff")

\* lines 132-174
ConstructFeatures ==
    /\ pc = "merged_ff"
    /\ frame' = [frame EXCEPT !.cr = construct_features(frame.cr),
                              !.derived = TRUE]
    /\ pc' = "featured"
    /\ UNCHANGED <<call, ret, exc, fs, prev>>

\* lines 177-180
TrimAndSave ==
    /\ pc = "featured"
    /\ frame' = [frame EXCEPT !.cr = trim_sample(frame.cr),
                              !.out = [written |-> TRUE,
                                       rows |-> trim_sample(frame.cr)]]
    /\ pc' = "saved"
    /\ UNCHANGED <<call, ret, exc, fs, prev>>

NextPanel ==
    \/ LoadAndRestrict
    \/ MergeConcentration
    \/ MergePolicyRate
    \/ ConstructFeatures
    \/ TrimAndSave

SpecPanel == InitPanel /\ [][NextPanel]_vars


\* ------------------------------------------- claims on panel preparation
\* the change cur / prev - 1 is at least 1.0 (division by zero as in floating
\* point: a rise from zero is an infinite change)
Doubled(prev_assets, cur_assets) ==
    /\ prev_assets # NaN /\ cur_assets # NaN
    /\ IF prev_assets = 0 THEN cur_assets > 0
       ELSE cur_assets >= 2 * prev_assets

SameBank(p, r) == p.rssdid = r.rssdid

\* the records of the bank of r in the quarter before that of r
PriorQuarterRecords(r) ==
    {p \in Range(frame.loaded) :
        /\ SameBank(p, r)
        /\ QuarterNo(p.year, p.quarter) = QuarterNo(r.year, r.quarter) - 1}

\* the records of the bank of r that come just before r in time order
PreviousRecords(r) ==
    {p \in Range(frame.loaded) :
        /\ SameBank(p, r)
        /\ QuarterNo(p.year, p.quarter) < QuarterNo(r.year, r.quarter)
        /\ \A o \in Range(frame.loaded) :
              (SameBank(o, r) /\ QuarterNo(o.year, o.quarter) < QuarterNo(r.year, r.quarter))
                  => QuarterNo(o.year, o.quarter) <= QuarterNo(p.year, p.quarter)}

\* C9: for every record, high_asset_growth is 1 exactly when the bank has a
\* record for the prior quarter with an available assets value over which the
\* record's assets rose by at least 100%, and 0 otherwise.
C9_FlagIffDoubledOverPriorQuarter ==
    frame.derived =>
        \A k \in 1..Len(frame.cr) :
            frame.cr[k].high_asset_growth =
                (IF \E p \in PriorQuarterRecords(frame.cr[k]) :
                        Doubled(p.assets, frame.cr[k].assets)
                 THEN 1 ELSE 0)

\* what the code computes instead: the change is taken over the bank's
\* previous record, whatever its quarter; with that reading the flag is never
\* missing, 0 on a bank's first record and after a missing value, and never
\* taken across two banks
GrowthFlagComparesPreviousRecord ==
    frame.derived =>
        \A k \in 1..Len(frame.cr) :
            frame.cr[k].high_asset_growth =
                (IF \E p \in PreviousRecords(frame.cr[k]) :
                        Doubled(p.assets, frame.cr[k].assets)
                 THEN 1 ELSE 0)

\* the example of the specification: assets 100, 100, 210, 150 over four
\* quarters in a row give the flags 0, 0, 1, 0
GrowthExample ==
    (/\ pc = "featured"
     /\ Len(frame.cr) >= 4
     /\ [k \in 1..4 |-> frame.cr[k].assets] = <<100, 100, 210, 150>>
     /\ \A k \in 1..4 : frame.cr[k].rssdid = 1001)
        => [k \in 1..4 |-> frame.cr[k].high_asset_growth] = <<0, 0, 1, 0>>


\* the filtered records, read off the raw rows: which are kept, and the
\* certificate a kept row carries into the merge
KeptRaw(i) ==
    /\ frame.raw[i].chartertype = 200
    /\ frame.raw[i].year >= 1993 /\ frame.raw[i].year <= 2014
CertMerged(i) ==
    IF frame.raw[i].rssdid = 3637685 THEN 58647 ELSE frame.raw[i].cert

\* a (cert, year, quarter) key stands twice in the filtered records
DuplicatedInRecords ==
    \E i, j \in 1..Len(frame.raw) :
        /\ i # j /\ KeptRaw(i) /\ KeptRaw(j)
        /\ CertMerged(i) = CertMerged(j)
        /\ frame.raw[i].year = frame.raw[j].year
        /\ frame.raw[i].quarter = frame.raw[j].quarter

\* ... in the concentration series
DuplicatedInConcentration ==
    \E i, j \in 1..Len(frame.l1) :
        /\ i # j
        /\ frame.l1[i].cert = frame.l1[j].cert
        /\ frame.l1[i].year = frame.l1[j].year
        /\ frame.l1[i].quarter = frame.l1[j].quarter

\* a (year, quarter) key stands twice in the policy-rate series; the series
\* is resampled to one row per quarter, so that none does
DuplicatedInPolicyRate ==
    \E i, j \in 1..Len(get_ff_rate(FF_OBSERVED)) :
        /\ i # j
        /\ get_ff_rate(FF_OBSERVED)[i].year = get_ff_rate(FF_OBSERVED)[j].year
        /\ get_ff_rate(FF_OBSERVED)[i].quarter = get_ff_rate(FF_OBSERVED)[j].quarter

DuplicatedKey ==
    DuplicatedInRecords \/ DuplicatedInConcentration \/ DuplicatedInPolicyRate

\* the concentration rows with the key of frame row r
Concentration(r) ==
    {c \in Range(frame.l1) :
        c.cert = r.cert /\ c.year = r.year /\ c.quarter = r.quarter}

\* C10: once the merges have been attempted: with a duplicated key the script
\* has stopped with a MergeError, no derived field computed and the
\* regression dataset not written; with none it has not stopped, and after
\* either join the frame has the filtered records, one row each in the order
\* they had, a record without a concentration row kept as left_only with a
\* missing concentration value, any other carrying the value of its row.
C10_DuplicateKeysHaltElseRowsKept ==
    (pc \notin {"panel_start", "loaded"}) =>
        /\ DuplicatedKey =>
              /\ pc = "panel_failed"
              /\ exc.type = "MergeError"
              /\ ~frame.derived
              /\ ~frame.out.written
              /\ \A k \in 1..Len(frame.cr) :
                    "high_asset_growth" \notin DOMAIN frame.cr[k]
        /\ ~DuplicatedKey =>
              /\ pc # "panel_failed"
              /\ exc = NoExc
              /\ pc \in {"merged_l1", "merged_ff"} =>
                    /\ Len(frame.cr) = Cardinality({i \in 1..Len(frame.raw) : KeptRaw(i)})
                    /\ Len(frame.cr) = Len(frame.loaded)
                    /\ \A k \in 1..Len(frame.cr) :
                          /\ frame.cr[k].rssdid = frame.loaded[k].rssdid
                          /\ frame.cr[k].year = frame.loaded[k].year
                          /\ frame.cr[k].quarter = frame.loaded[k].quarter
                          /\ frame.cr[k].assets = frame.loaded[k].assets
                          /\ IF Concentration(frame.cr[k]) = {}
                             THEN /\ frame.cr[k].merge = "left_only"
                                  /\ frame.cr[k].l1_herfdepcty = NaN
                             ELSE /\ frame.cr[k].merge = "both"
                                  /\ \E c \in Concentration(frame.cr[k]) :
                                        frame.cr[k].l1_herfdepcty = c.l1_herfdepcty

\* the script stopped on a certificate that two banks share in one quarter,
\* the concentration series being in order
C10_Witness ==
    /\ pc = "panel_failed"
    /\ exc.type = "MergeError"
    /\ DuplicatedInRecords
    /\ ~DuplicatedInConcentration

\* -------------------------------------------- orchestration (__main__)
\* A fragment as the estimation step leaves it, before the cleanup pass: plain
\* tabular directives, raw variable names in the header, the level term with
\* its standard errors above the interaction row, the fixed-effect and
\* goodness-of-fit rows.
RawHeaderCells(panel) ==
    IF panel = "A"
    THEN <<replacements_panelA[1][1], replacements_panelA[2][1]>>
    ELSE <<replacements_panelB[1][1], replacements_panelB[6][1]>>

RawFragmentLines(panel) ==
    << TABULAR_BEGIN,
       Spaces(3) \o <<"\\toprule">>,
       <<"Dependent Variables:", SP, AMP, SP>> \o JoinCells(RawHeaderCells(panel))
           \o <<BS, BS>>,
       <<"Model:", SP, AMP, SP, "(1)", SP, AMP, SP, "(2)", BS, BS>>,
       Spaces(3) \o <<"\\midrule">>,
       <<L1_ESCAPED, SP, AMP, SP>> \o JoinCells(OTHER_COEFS) \o <<BS, BS>>,
       Spaces(3) \o <<AMP, SP>> \o JoinCells(SES) \o <<BS, BS>>,
       INTERACTION_RAW \o <<SP, AMP, SP>> \o JoinCells(COEFS) \o <<BS, BS>>,
       Spaces(3) \o <<AMP, SP>> \o JoinCells(SES) \o <<BS, BS>>,
       Spaces(3) \o <<"\\midrule">>,
       <<"rssdid fixed effects", SP, AMP, SP, "Yes", SP, AMP, SP, "Yes", BS, BS>>,
       Spaces(3) \o <<"\\midrule">>,
       <<"Observations", SP, AMP, SP, "4,848", SP, AMP, SP, "4,848", BS, BS>>,
       <<"Within R$^2$", SP, AMP, SP>> \o JoinCells(OTHER_COEFS) \o <<BS, BS>>,
       Spaces(3) \o <<"\\bottomrule">>,
       TABULAR_END >>

\* the lines that a defective raw fragment lacks
RawDroppedLines(variant) == IF variant = "no_obs" THEN {13} ELSE {}

RawVariants == {"missing", "no_obs"}

RawFragmentFile(panel, variant) ==
    IF variant = "missing" THEN Missing
    ELSE File(Join(Without(RawFragmentLines(panel), RawDroppedLines(variant), 1),
                   <<NL>>))

\* lines 623-638: the calls of one run, in the order of the script
FIX_CALL == [fn |-> "fix_all_tables", sample_tag |-> "", filter_tag |-> "", panel |-> ""]

FilterCallAt(i) ==
    [fn |-> "build_composite_panel_filters",
     sample_tag |-> SAMPLES_FILTER[((i - 1) \div Len(PANELS)) + 1],
     filter_tag |-> "",
     panel |-> PANELS[((i - 1) % Len(PANELS)) + 1]]
FECallAt(i) ==
    [fn |-> "build_composite_panel_fe", sample_tag |-> FE_SAMPLE_TAG,
     filter_tag |-> FE_FILTER_TAG, panel |-> PANELS[i]]
SampleCallAt(i) ==
    [fn |-> "build_composite_panel_samples", sample_tag |-> "",
     filter_tag |-> ROBUST_FILTER_TAG, panel |-> PANELS[i]]

\* a script that builds the fixed-effect composites before the filter ones
MAIN_CALLS_fe_first ==
    <<FIX_CALL>>
        \o [i \in 1..Len(PANELS) |-> FECallAt(i)]
        \o [i \in 1..(Len(SAMPLES_FILTER) * Len(PANELS)) |-> FilterCallAt(i)]
        \o [i \in 1..Len(PANELS) |-> SampleCallAt(i)]

MAIN_CALLS ==
    <<FIX_CALL>>
        \o [i \in 1..(Len(SAMPLES_FILTER) * Len(PANELS)) |-> FilterCallAt(i)]
        \o [i \in 1..Len(PANELS) |-> FECallAt(i)]
        \o [i \in 1..Len(PANELS) |-> SampleCallAt(i)]

\* every base fragment that a run reads
AllSources == UNION {Range(Sources(MAIN_CALLS[i])) : i \in 2..Len(MAIN_CALLS)}

\* the base fragments that the initial directory may hold in a defective form
MainProbes ==
    { <<"t8", "A", "full", "none">>,
      <<"t8", "B", "full", "both">>,
      <<"t8", "B", "pre2008", "growth">>,
      <<"t8", "A", "top10", "both">>,
      <<"t8", "A", "full", "both", "mainFE">>,
      <<"t8", "B", "full", "both", "quarterOnlyFE">> }

\* a composite left in tables/ by an earlier run of the script
StaleComposite ==
    File(LabelledCompositeText("Filter", [i \in 1..Len(FILTERS) |-> FILTERS[i][2]],
            [i \in 1..Len(FILTERS) |->
                Parse("obs", NoPath, FragmentFile("A", "good").text)]))

\* the composites an earlier run may have left
StaleSets ==
    { {},
      {OutFilters("full", "A")},
      {OutFE(FE_SAMPLE_TAG, FE_FILTER_TAG, "B"), OutSamples("A")} }

\* standard output: the files the cleanup pass announced (line 175; the order
\* of glob is not fixed, so a set) and the "Wrote" lines of the builders
NoOutput == [processed |-> {}, wrote |-> <<>>]

InitMain ==
    \E odd \in {o \in SUBSET MainProbes : Cardinality(o) <= MaxOddFragments} :
      \E w \in [odd -> RawVariants] :
        \E stale \in StaleSets :
            /\ pc = "main_running"
            /\ call = MAIN_CALLS[1]
            /\ ret = NoOutput
            /\ exc = NoExc
            /\ fs = [p \in AllSources \cup stale \cup {<<"notes">>} |->
                        IF p \in stale THEN StaleComposite
                        ELSE IF p = <<"notes">> THEN File(<<"x">>)
                        ELSE RawFragmentFile(p[2], IF p \in odd THEN w[p] ELSE "good")]
            /\ prev = NoFs
            /\ frame = NoFrame

\* the call after c in the script; the last call ends the run
CallAfter(c) ==
    LET i == IndexOf(MAIN_CALLS, c)
    IN  IF i < Len(MAIN_CALLS) THEN MAIN_CALLS[i + 1] ELSE c
IsLastCall(c) == IndexOf(MAIN_CALLS, c) = Len(MAIN_CALLS)

\* line 625
MainFixAllTables ==
    /\ pc = "main_running"
    /\ call.fn = "fix_all_tables"
    /\ fs' = fix_all_tables(fs)
    /\ ret' = [ret EXCEPT !.processed =
                  {p \in DOMAIN fs : fs[p].exists /\ MappingFor(p) # "skip"}]
    /\ prev' = fs
    /\ call' = CallAfter(call)
    /\ UNCHANGED <<pc, exc, frame>>

\* a builder call of the script ended with r: an exception ends the run, else
\* the builder printed its "Wrote" line and the script goes on
MainStep(r) ==
    /\ fs' = r.files
    /\ prev' = fs
    /\ exc' = r.exc
    /\ ret' = IF r.exc = NoExc
              THEN [ret EXCEPT !.wrote = Append(ret.wrote, OutPath(call))]
              ELSE ret
    /\ pc' = IF r.exc # NoExc THEN "main_raised"
             ELSE IF IsLastCall(call) THEN "main_done"
             ELSE "main_running"
    /\ call' = IF r.exc = NoExc THEN CallAfter(call) ELSE call
    /\ UNCHANGED frame

\* lines 628-630
MainBuildFilters ==
    /\ pc = "main_running"
    /\ call.fn = "build_composite_panel_filters"
    /\ MainStep(build_composite_panel_filters(fs, call.sample_tag, call.panel))

\* lines 633-634
MainBuildFE ==
    /\ pc = "main_running"
    /\ call.fn = "build_composite_panel_fe"
    /\ MainStep(build_composite_panel_fe(fs, call.sample_tag, call.filter_tag,
                                         call.panel))

\* lines 637-638
MainBuildSamples ==
    /\ pc = "main_running"
    /\ call.fn = "build_composite_panel_samples"
    /\ MainStep(build_composite_panel_samples(fs, call.panel))

NextMain == MainFixAllTables \/ MainBuildFilters \/ MainBuildFE \/ MainBuildSamples

SpecMain == InitMain /\ [][NextMain]_vars

\* ------------------------------------------------ claims on the orchestration
\* the composites of one run in the order in which the script writes them
EXPECTED_WROTE ==
    << <<"t8", "A", "full", "composite">>,    <<"t8", "B", "full", "composite">>,
       <<"t8", "A", "pre2008", "composite">>, <<"t8", "B", "pre2008", "composite">>,
       <<"t8", "A", "top25", "composite">>,   <<"t8", "B", "top25", "composite">>,
       <<"t8", "A", "top10", "composite">>,   <<"t8", "B", "top10", "composite">>,
       <<"t8", "A", "full", "both", "FEcomposite">>,
       <<"t8", "B", "full", "both", "FEcomposite">>,
       <<"t8", "A", "robustness", "composite">>,
       <<"t8", "B", "robustness", "composite">> >>

CleanupPending == pc = "main_running" /\ call.fn = "fix_all_tables"

\* the run keeps the order of the script: nothing is built before the cleanup
\* pass has ended; the composites written so far are the first ones of the
\* expected order, each written once; the call under way is the builder of the
\* next one, and the fragments it reads have been cleaned; a run that raised
\* stopped at that call, which wrote nothing, and a finished run wrote all
RunInOrder ==
    LET n == Len(ret.wrote)
    IN  /\ n <= Len(EXPECTED_WROTE)
        /\ ret.wrote = SubSeq(EXPECTED_WROTE, 1, n)
        /\ \A i \in 1..n : Exists(fs, EXPECTED_WROTE[i])
        /\ CleanupPending => (n = 0 /\ ret.processed = {})
        /\ (pc # "main_done" /\ ~CleanupPending) =>
              /\ n < Len(EXPECTED_WROTE)
              /\ OutPath(call) = EXPECTED_WROTE[n + 1]
              /\ \A p \in Range(Sources(call)) :
                    Exists(fs, p) =>
                        /\ p \in ret.processed
                        /\ ~Contains(fs[p].text, INTERACTION_RAW)
                        /\ ~Contains(fs[p].text, TABULAR_BEGIN)
        /\ pc = "main_running" => exc = NoExc
        /\ pc = "main_raised" => (exc # NoExc /\ fs = prev)
        /\ pc = "main_done" => (exc = NoExc /\ n = Len(EXPECTED_WROTE))

\* C11 (as stated): the run keeps the fixed order, a fatal error ends it, and
\* the cleanup pass rewrites base fragments only, never a composite file.
C11_FixedOrderCleanupSparesComposites ==
    /\ RunInOrder
    /\ ret.processed \cap Range(EXPECTED_WROTE) = {}

\* the cleanup pass has just ended: prev is tables/ as the run found it
CleanupJustEnded ==
    pc = "main_running" /\ call.fn # "fix_all_tables" /\ ret.wrote = <<>>

\* C11 (amended): the run keeps the fixed order and a fatal error ends it.
\* The cleanup pass takes every file of tables/ whose name holds a capital A
\* or B: every base fragment, and also every composite that an earlier run
\* left there, which it rewrites (with the text it had); files without such a
\* letter are left alone.  It runs before the first builder, so it never
\* touches a composite written by the same run.
C11_FixedOrderCleanupTakesPanelNamedFiles ==
    /\ RunInOrder
    /\ CleanupJustEnded =>
          /\ ret.processed = {p \in DOMAIN prev : prev[p].exists /\ p # <<"notes">>}
          /\ \A p \in AllSources : Exists(prev, p) => p \in ret.processed
          /\ \A p \in Range(EXPECTED_WROTE) :
                Exists(prev, p) => (p \in ret.processed /\ fs[p] = prev[p])
          /\ fs[<<"notes">>] = prev[<<"notes">>]
    /\ ret.wrote # <<>> => ret.processed # {}

\* a run whose cleanup pass took a composite left by an earlier run, and that
\* then wrote the eight filter composites and stopped in the first
\* fixed-effect build
C11_Witness ==
    /\ pc = "main_raised"
    /\ Len(ret.wrote) = 8
    /\ call.fn = "build_composite_panel_fe"
    /\ ret.processed \cap Range(EXPECTED_WROTE) # {}

\* ----------------------------------------- specification: fragment parsing
\* number of lines of a fragment between its header block and its end
MaxBodyLines == 3

\* a line in front of the header block: the tabular directive, or a caption
\* that quotes the interaction label
PreludeKinds ==
    { TABULAR_STAR_BEGIN,
      <<"\\caption{Effect of", SP, INTERACTION_LABEL, "}">> }

\* the header block of a cleaned panel-A fragment
HEADER_BLOCK ==
    << Spaces(3) \o <<"\\toprule">>,
       <<"Dependent Variables:", SP, AMP, SP>> \o JoinCells(HeaderCells("A"))
           \o <<BS, BS>>,
       <<"Model:", SP, AMP, SP, "(1)", SP, AMP, SP, "(2)", BS, BS>>,
       Spaces(3) \o <<"\\midrule">> >>

RowOf(label, cells) == label \o <<SP, AMP, SP>> \o JoinCells(cells) \o <<BS, BS>>

\* the lines a fragment body is made of: the interaction row under its display
\* label, under the plain names that the cleanup pass does not rename (with
\* dFF and with d_FF), a row of standard errors, the level term, a line
\* without separator, the observations row, a rule
BodyKinds ==
    { RowOf(<<INTERACTION_LABEL>>, COEFS),
      RowOf(<<L1_PLAIN, SP, "x", SP, "dFF">>, COEFS),
      RowOf(<<L1_PLAIN, SP, "x", SP, "d_FF">>, OTHER_COEFS),
      RowOf(<<L1_ESCAPED>>, OTHER_COEFS),
      Spaces(3) \o <<AMP, SP>> \o JoinCells(SES) \o <<BS, BS>>,
      <<"\\emph{Variables}", BS, BS>>,
      RowOf(<<"Observations">>, << <<"4,848">>, <<"4,848">> >>),
      Spaces(3) \o <<"\\midrule">> }

FragmentTextsToParse ==
    {Join(pre \o HEADER_BLOCK \o body, <<NL>>) :
        pre \in SeqsUpTo(PreludeKinds, 1), body \in SeqsUpTo(BodyKinds, MaxBodyLines)}

ParsePath == <<"t8", "A", "full", "both">>

InitParse ==
    /\ pc = "parse_call"
    /\ call \in {[fn |-> f, path |-> ParsePath, text |-> t] :
                    f \in {"parse_panel_file_fe", "parse_panel_file_with_obs"},
                    t \in FragmentTextsToParse}
    /\ ret = NoParse
    /\ exc = NoExc
    /\ fs = NoFs
    /\ prev = NoFs
    /\ frame = NoFrame

\* the parser returned r, or raised r.exc
Parsed(r) ==
    /\ ret' = r
    /\ exc' = r.exc
    /\ pc' = "parse_done"
    /\ UNCHANGED <<call, fs, prev, frame>>

ParseFE ==
    /\ pc = "parse_call"
    /\ call.fn = "parse_panel_file_fe"
    /\ Parsed(parse_panel_file_fe(call.path, call.text))

ParseWithObs ==
    /\ pc = "parse_call"
    /\ call.fn = "parse_panel_file_with_obs"
    /\ Parsed(parse_panel_file_with_obs(call.path, call.text))

NextParse == ParseFE \/ ParseWithObs

SpecParse == InitParse /\ [][NextParse]_vars

\* ---- claims on the parsers
ParsedWell == pc = "parse_done" /\ exc = NoExc

\* the lines of the fragment parsed, numbered from 1
ParsedLines == SplitLines(call.text)

\* j is the first line after i that holds a column separator
FirstSeparatorAfter(i, j) ==
    /\ j > i
    /\ AMP \in Range(ParsedLines[j])
    /\ \A m \in (i + 1)..(j - 1) : AMP \notin Range(ParsedLines[m])

\* C12: in every fragment that parses, the body boundary comes after the
\* header boundary, the coefficient row lies after the body boundary, and the
\* standard-error row is the first line after the coefficient row that holds a
\* column separator.
C12_RowsCapturedAfterHeader ==
    ParsedWell =>
        /\ ret.top_idx < ret.mid_idx
        /\ ret.mid_idx < ret.int_idx
        /\ FirstSeparatorAfter(ret.int_idx, ret.se_idx)

\* (support for C12) what does hold: the boundaries are in order, the
\* coefficient row is the first line of the whole text that matches, wherever
\* it stands, and the standard-error row is the first line with a separator
\* after it
CoefficientRowIsFirstMatchOfText ==
    ParsedWell =>
        /\ ret.top_idx < ret.mid_idx
        /\ FirstSeparatorAfter(ret.int_idx, ret.se_idx)
        /\ \A m \in 1..(ret.int_idx - 1) :
              ~Contains(ParsedLines[m], <<INTERACTION_LABEL>>)

\* C13: on any fragment that has an observations row, the two parsers find the
\* coefficient row alike (by the display label, else by the fallback naming):
\* when one of them parses the fragment so does the other, and they capture
\* the same header, coefficient and standard-error cells.
C13_ParsersCaptureSameCells ==
    (pc = "parse_done" /\ Contains(call.text, <<"Observations">>)) =>
        LET fe == parse_panel_file_fe(call.path, call.text)
            obs == parse_panel_file_with_obs(call.path, call.text)
        IN  /\ (fe.exc = NoExc) = (obs.exc = NoExc)
            /\ fe.exc = NoExc =>
                  /\ fe.header_vars = obs.header_vars
                  /\ fe.header_nums = obs.header_nums
                  /\ fe.coefs = obs.coefs
                  /\ fe.ses = obs.ses

\* (support for C13) on a fragment that holds the display label the two
\* parsers do agree
ParsersAgreeOnDisplayLabel ==
    (pc = "parse_done" /\ Contains(call.text, <<"Observations">>)
        /\ Contains(call.text, <<INTERACTION_LABEL>>)) =>
        LET fe == parse_panel_file_fe(call.path, call.text)
            obs == parse_panel_file_with_obs(call.path, call.text)
        IN  /\ (fe.exc = NoExc) = (obs.exc = NoExc)
            /\ fe.exc = NoExc =>
                  /\ fe.header_vars = obs.header_vars
                  /\ fe.coefs = obs.coefs
                  /\ fe.ses = obs.ses

\* ---- column counts of a composite
\* the number of columns of a line of the composite: its pieces between
\* column separators, blank ones counted
Columns(line) == Len(Pieces(line))

\* the number of columns the column specification of line 3 declares: its
\* "l" and "c" entries
DeclaredColumns(line) == Cardinality({i \in 1..Len(line) : line[i] \in {"l", "c"}})

\* C14: in every composite written, every data row has as many columns as the
\* header rows and as the column layout declares, whatever the fragments'
\* coefficient and standard-error rows hold.
C14_RowsHaveHeaderColumnCount ==
    pc = "build_returned" =>
        LET lines == Composite
        IN  /\ Columns(lines[5]) = DeclaredColumns(lines[3])
            /\ Columns(lines[6]) = DeclaredColumns(lines[3])
            /\ \A i \in 10..(Len(lines) - 3) :
                  Columns(lines[i]) = DeclaredColumns(lines[3])

\* (support for C14) the header rows always fill the declared columns; a data
\* row does when its fragment yields as many non-empty coefficient cells and
\* standard-error cells as the first fragment has header variables, and
\* otherwise has as many value cells as the shorter of the two lists
RowsFillColumnsWhenCellsComplete ==
    pc = "build_returned" =>
        LET lines == Composite
            k == Len(Fragment(1).header_vars)
            fixed == DeclaredColumns(lines[3]) - k
            Shorter(i) == IF Len(Fragment(i).coefs) < Len(Fragment(i).ses)
                          THEN Len(Fragment(i).coefs) ELSE Len(Fragment(i).ses)
        IN  /\ Columns(lines[5]) = DeclaredColumns(lines[3])
            /\ Columns(lines[6]) = DeclaredColumns(lines[3])
            /\ fixed = (IF call.fn = "build_composite_panel_fe" THEN 3 ELSE 2)
            /\ \A i \in 1..Len(Sources(call)) :
                  Columns(lines[9 + i]) = fixed + Shorter(i)

\* ------------------------------- specification: cleanup pass on a fragment
\* the lines of the body of a fragment handed to the cleanup pass: the
\* interaction row as the estimation step names it, and the rows of BodyKinds
\* that hold a column separator
CleanBodyKinds ==
    {RowOf(INTERACTION_RAW, COEFS)} \cup {l \in BodyKinds : AMP \in Range(l)}

FragmentTextsToClean ==
    {Join(HEADER_BLOCK \o body, <<NL>>) : body \in SeqsUpTo(CleanBodyKinds, MaxBodyLines)}

InitCleanFragment ==
    /\ pc = "clean_call"
    /\ call = [fn |-> "fix_all_tables"]
    /\ ret = <<>>
    /\ exc = NoExc
    /\ fs \in {[p \in {ParsePath} |-> File(t)] : t \in FragmentTextsToClean}
    /\ prev = NoFs
    /\ frame = NoFrame

SpecCleanFragment == InitCleanFragment /\ [][NextClean]_vars

\* ---- claims on the cleanup pass and the parser
\* a line that parse_panel_file_fe accepts as the interaction row
AcceptedAsInteraction(l) == HasInteractionLabel(l) \/ HasRawInteraction(l)

\* the fragment before and after its first cleaning
LinesBefore == SplitLines(prev[ParsePath].text)
LinesAfter == SplitLines(fs[ParsePath].text)

\* a line as the substitutions and the number format of the pass leave it
Rewritten(l) == RewriteText(l, replacements_panelA)

\* cells up to number formatting
Formatted(cells) == [i \in 1..Len(cells) |-> SubNumbers(cells[i])]

\* the first cleaning kept line i of the fragment and the line after it
KeptWithFollower(i) ==
    \E j \in 1..Len(LinesAfter) :
        /\ LinesAfter[j] = Rewritten(LinesBefore[i])
        /\ i < Len(LinesBefore) =>
              /\ j < Len(LinesAfter)
              /\ LinesAfter[j + 1] = Rewritten(LinesBefore[i + 1])

\* what the parser makes of the fragment before and after, compared
ParsesAlike(before, after) ==
    before.exc = NoExc =>
        /\ after.exc = NoExc
        /\ Formatted(after.coefs) = Formatted(before.coefs)
        /\ Formatted(after.ses) = Formatted(before.ses)

\* C15: the cleanup pass never removes the interaction row or the line under
\* it: every line that the parser accepts as the interaction row (display
\* label or fallback naming, the d_FF spelling included) is still there after
\* process_tex, followed by the line that followed it; and a fragment that
\* parses before the pass parses after it, with the same coefficient and
\* standard-error cells up to number formatting.
C15_CleanupKeepsInteractionRow ==
    pc = "cleaned_once" =>
        /\ \A i \in 1..Len(LinesBefore) :
              AcceptedAsInteraction(LinesBefore[i]) => KeptWithFollower(i)
        /\ ParsesAlike(parse_panel_file_fe(ParsePath, prev[ParsePath].text),
                       parse_panel_file_fe(ParsePath, fs[ParsePath].text))

\* (support for C15) what does hold: a fragment with exactly one line that the
\* parser accepts as the interaction row, and with no line that the pass takes
\* for the level term, keeps that line and the one under it, and parses alike
\* before and after
CleanupKeepsSingleInteractionRow ==
    (/\ pc = "cleaned_once"
     /\ ~HasLevelTermRow(prev[ParsePath].text)
     /\ Cardinality({i \in 1..Len(LinesBefore) :
                        AcceptedAsInteraction(LinesBefore[i])}) = 1) =>
        /\ \A i \in 1..Len(LinesBefore) :
              AcceptedAsInteraction(LinesBefore[i]) => KeptWithFollower(i)
        /\ ParsesAlike(parse_panel_file_fe(ParsePath, prev[ParsePath].text),
                       parse_panel_file_fe(ParsePath, fs[ParsePath].text))

=============================================================================
